---- MODULE Spec2Model ----
(***************************************************************************)
(* The compare-page selectors of mlab-vis-client (src/unnamed/part_000):   *)
(* the selection resolver, the cross-product expander, the join lookup and *)
(* the grouping engine, each wrapped in a reselect createSelector with a   *)
(* one-entry cache; and the data fetching of the dashboard page            *)
(* (src/containers/DashboardPage/DashboardPage.jsx).                       *)
(*                                                                         *)
(* JavaScript values are modelled as follows.                              *)
(*   - an optional array (props.facetItemIds ...) is a record              *)
(*     [def, ref, elems]: def = FALSE is undefined, ref is the identity of *)
(*     the array object (what === compares), elems its elements;           *)
(*   - an optional value is a sequence of length 0 (undefined) or 1;       *)
(*   - an object whose identity a memoizer compares carries a ref field,   *)
(*     allocated from the counter heap.                                    *)
(***************************************************************************)
EXTENDS Integers, Sequences, FiniteSets, TLC

VARIABLES
  props,      \* the react props handed to the selectors (URL query params)
  state,      \* the redux state: the four combined-record stores
  memo,       \* the one-entry caches of the createSelector selectors
  outerMemo,  \* whether createSelector also memoizes on (state, props) identity
  heap,       \* next free object identity
  ret,        \* what the selectors of the last call returned
  op,         \* the last operation
  fuel,       \* selector calls, or changes by the user, left in this run
  dashboard,  \* this.state of the DashboardPage component
  requests    \* the fetches DashboardPage issued, in order, each with its phase

vars == <<props, state, memo, outerMemo, heap, ret, op, fuel, dashboard, requests>>

\* ------------------------------------------------------------------ bounds

\* longest id list of a selection
MaxIds == 2
\* selector calls and input changes of one session
MaxCalls == 3

\* entity ids; the three dimensions share them, so that an id of one
\* dimension may equal an id of another
Ids == {1, 2}

SeqsUpTo(S, n) == UNION {[1..k -> S] : k \in 0..n}

\* ------------------------------------------------------------ JS helpers

Undefined == [def |-> FALSE, ref |-> 0, elems |-> <<>>]
Arr(r, s) == [def |-> TRUE, ref |-> r, elems |-> s]

RECURSIVE Flatten(_)
Flatten(ss) == IF ss = <<>> THEN <<>> ELSE Head(ss) \o Flatten(Tail(ss))

\* Array.prototype.join
RECURSIVE JoinStr(_, _)
JoinStr(s, sep) ==
  IF s = <<>> THEN ""
  ELSE IF Len(s) = 1 THEN s[1]
  ELSE s[1] \o sep \o JoinStr(Tail(s), sep)

\* variant: the sort of line 441 left out
Unsorted(s) == s

\* Array.prototype.sort((a, b) => a.sort - b.sort), by insertion
RECURSIVE InsertBySort(_, _)
InsertBySort(x, s) ==
  IF s = <<>> THEN <<x>>
  ELSE IF x.sort < Head(s).sort THEN <<x>> \o s
  ELSE <<Head(s)>> \o InsertBySort(x, Tail(s))

RECURSIVE SortBySort(_)
SortBySort(s) ==
  IF s = <<>> THEN <<>>
  ELSE InsertBySort(s[Len(s)], SortBySort(SubSeq(s, 1, Len(s) - 1)))

\* --------------------------------------------------------------- catalog

\* constants.facetTypes: the three dimensions, location first
metrics ==
  << [value |-> "download", dataKey |-> "download_speed_mbps_median"],
     [value |-> "upload", dataKey |-> "upload_speed_mbps_median"] >>

\* the metric of that value, the first metric when there is none
extractMetric(metricValue) ==
  LET found == {i \in 1..Len(metrics) : metrics[i].value = metricValue}
  IN IF found # {}
       THEN metrics[CHOOSE i \in found : \A j \in found : i <= j]
       ELSE metrics[1]

facetTypes ==
  << [value |-> "location", idKey |-> "location_key"],
     [value |-> "clientIsp", idKey |-> "client_asn_number"],
     [value |-> "transitIsp", idKey |-> "server_asn_number"] >>

extractFacetType(facetTypeValue) ==
  LET found == {i \in 1..Len(facetTypes) : facetTypes[i].value = facetTypeValue}
  IN IF found # {}
       THEN facetTypes[CHOOSE i \in found : \A j \in found : i <= j]
       ELSE facetTypes[1]

\* ------------------------------------------------------- input selectors

getFacetType(st, p) == extractFacetType(p.facetType)

getFacetItemIds(st, p) == p.facetItemIds

getFilter1Ids(st, p) == p.filter1Ids

getFilter2Ids(st, p) == p.filter2Ids

getBreakdownBy(st, p) == p.breakdownBy

\* variant: the filter types of transitIsp in the other order
getFilterTypesSwapped(st, p) ==
  LET facetType == getFacetType(st, p)
  IN IF facetType.value = "location"
       THEN <<extractFacetType("clientIsp"), extractFacetType("transitIsp")>>
     ELSE IF facetType.value = "clientIsp"
       THEN <<extractFacetType("location"), extractFacetType("transitIsp")>>
     ELSE IF facetType.value = "transitIsp"
       THEN <<extractFacetType("clientIsp"), extractFacetType("location")>>
     ELSE <<>>

\* variant: the switch reads props.facetType, not the resolved facet type
getFilterTypesRawValue(st, p) ==
  IF p.facetType = "location"
    THEN <<extractFacetType("clientIsp"), extractFacetType("transitIsp")>>
  ELSE IF p.facetType = "clientIsp"
    THEN <<extractFacetType("location"), extractFacetType("transitIsp")>>
  ELSE IF p.facetType = "transitIsp"
    THEN <<extractFacetType("location"), extractFacetType("clientIsp")>>
  ELSE <<>>

\* the elements of the array getFilterTypes returns; the array itself is a
\* new object on every call (see FreshFilterTypes)
getFilterTypes(st, p) ==
  LET facetType == getFacetType(st, p)
  IN IF facetType.value = "location"
       THEN <<extractFacetType("clientIsp"), extractFacetType("transitIsp")>>
     ELSE IF facetType.value = "clientIsp"
       THEN <<extractFacetType("location"), extractFacetType("transitIsp")>>
     ELSE IF facetType.value = "transitIsp"
       THEN <<extractFacetType("location"), extractFacetType("clientIsp")>>
     ELSE <<>>

\* ------------------------------------------------------ identity combiner

makeLocationClientIspId(locationId, clientIspId) == <<locationId, clientIspId>>

makeLocationTransitIspId(locationId, transitIspId) == <<locationId, transitIspId>>

makeClientIspTransitIspId(clientIspId, transitIspId) == <<clientIspId, transitIspId>>

makeLocationClientIspTransitIspId(locationId, clientIspId, transitIspId) ==
  <<locationId, clientIspId, transitIspId>>

\* ------------------------------------------------- cross-product expander

sortValues == [location |-> 0, clientIsp |-> 1, transitIsp |-> 2]

\* variant: filter2's entry built with filter1's ids
activeFiltersCopyPaste(facetType, facetItemIds, filterTypes, filter1Ids, filter2Ids, breakdownBy) ==
  << [value |-> facetType.value, type |-> "facet", breakdownBy |-> "undefined",
      ids |-> IF facetItemIds.def THEN facetItemIds.elems ELSE <<>>,
      sort |-> sortValues[facetType.value]] >>
  \o (IF filter1Ids.def /\ Len(filter1Ids.elems) # 0
        THEN << [value |-> filterTypes[1].value, type |-> "filter1",
                 breakdownBy |-> IF breakdownBy = "filter1" THEN "true" ELSE "false",
                 ids |-> filter1Ids.elems,
                 sort |-> sortValues[filterTypes[1].value]] >>
        ELSE <<>>)
  \o (IF filter2Ids.def /\ Len(filter2Ids.elems) # 0
        THEN << [value |-> filterTypes[2].value, type |-> "filter2",
                 breakdownBy |-> IF breakdownBy = "filter2" THEN "true" ELSE "false",
                 ids |-> filter1Ids.elems,
                 sort |-> sortValues[filterTypes[2].value]] >>
        ELSE <<>>)

\* variant: a filter is active as soon as its id list is defined, empty or not
activeFiltersNoLengthCheck(facetType, facetItemIds, filterTypes, filter1Ids, filter2Ids, breakdownBy) ==
  << [value |-> facetType.value, type |-> "facet", breakdownBy |-> "undefined",
      ids |-> IF facetItemIds.def THEN facetItemIds.elems ELSE <<>>,
      sort |-> sortValues[facetType.value]] >>
  \o (IF filter1Ids.def
        THEN << [value |-> filterTypes[1].value, type |-> "filter1",
                 breakdownBy |-> IF breakdownBy = "filter1" THEN "true" ELSE "false",
                 ids |-> filter1Ids.elems,
                 sort |-> sortValues[filterTypes[1].value]] >>
        ELSE <<>>)
  \o (IF filter2Ids.def
        THEN << [value |-> filterTypes[2].value, type |-> "filter2",
                 breakdownBy |-> IF breakdownBy = "filter2" THEN "true" ELSE "false",
                 ids |-> filter2Ids.elems,
                 sort |-> sortValues[filterTypes[2].value]] >>
        ELSE <<>>)

\* the array "combined" before it is sorted: the facet always, a filter when
\* its id list is non-empty
activeFilters(facetType, facetItemIds, filterTypes, filter1Ids, filter2Ids, breakdownBy) ==
  << [value |-> facetType.value, type |-> "facet", breakdownBy |-> "undefined",
      ids |-> IF facetItemIds.def THEN facetItemIds.elems ELSE <<>>,
      sort |-> sortValues[facetType.value]] >>
  \o (IF filter1Ids.def /\ Len(filter1Ids.elems) # 0
        THEN << [value |-> filterTypes[1].value, type |-> "filter1",
                 breakdownBy |-> IF breakdownBy = "filter1" THEN "true" ELSE "false",
                 ids |-> filter1Ids.elems,
                 sort |-> sortValues[filterTypes[1].value]] >>
        ELSE <<>>)
  \o (IF filter2Ids.def /\ Len(filter2Ids.elems) # 0
        THEN << [value |-> filterTypes[2].value, type |-> "filter2",
                 breakdownBy |-> IF breakdownBy = "filter2" THEN "true" ELSE "false",
                 ids |-> filter2Ids.elems,
                 sort |-> sortValues[filterTypes[2].value]] >>
        ELSE <<>>)

\* variant: the two ternaries of case 'location-clientIsp' exchanged
locationClientIspIdsSwapped(locations, clientIsps) ==
  Flatten([n1 \in 1..Len(locations.ids) |-> LET locationId == locations.ids[n1] IN
    [n2 \in 1..Len(clientIsps.ids) |-> LET clientIspId == clientIsps.ids[n2] IN
      [facetItemId  |-> IF locations.type # "facet" THEN locationId ELSE clientIspId,
       filterItemId |-> IF locations.type = "facet" THEN locationId ELSE clientIspId,
       combined     |-> makeLocationClientIspId(locationId, clientIspId)]]])

\* case 'location-clientIsp'
locationClientIspIds(locations, clientIsps) ==
  Flatten([n1 \in 1..Len(locations.ids) |-> LET locationId == locations.ids[n1] IN
    [n2 \in 1..Len(clientIsps.ids) |-> LET clientIspId == clientIsps.ids[n2] IN
      [facetItemId  |-> IF locations.type = "facet" THEN locationId ELSE clientIspId,
       filterItemId |-> IF locations.type # "facet" THEN locationId ELSE clientIspId,
       combined     |-> makeLocationClientIspId(locationId, clientIspId)]]])

\* case 'location-transitIsp'
locationTransitIspIds(locations, transitIsps) ==
  Flatten([n1 \in 1..Len(locations.ids) |-> LET locationId == locations.ids[n1] IN
    [n2 \in 1..Len(transitIsps.ids) |-> LET transitIspId == transitIsps.ids[n2] IN
      [facetItemId  |-> IF locations.type = "facet" THEN locationId ELSE transitIspId,
       filterItemId |-> IF locations.type # "facet" THEN locationId ELSE transitIspId,
       combined     |-> makeLocationTransitIspId(locationId, transitIspId)]]])

\* case 'clientIsp-transitIsp'
clientIspTransitIspIds(clientIsps, transitIsps) ==
  Flatten([n1 \in 1..Len(clientIsps.ids) |-> LET clientIspId == clientIsps.ids[n1] IN
    [n2 \in 1..Len(transitIsps.ids) |-> LET transitIspId == transitIsps.ids[n2] IN
      [facetItemId  |-> IF clientIsps.type = "facet" THEN clientIspId ELSE transitIspId,
       filterItemId |-> IF clientIsps.type # "facet" THEN clientIspId ELSE transitIspId,
       combined     |-> makeClientIspTransitIspId(clientIspId, transitIspId)]]])

\* variant: filterItemId taken where breakdownBy is falsy, not where it === false
locationClientIspTransitIspIdsFalsy(locations, clientIsps, transitIsps) ==
  Flatten([n1 \in 1..Len(locations.ids) |-> LET locationId == locations.ids[n1] IN
    Flatten([n2 \in 1..Len(clientIsps.ids) |-> LET clientIspId == clientIsps.ids[n2] IN
      [n3 \in 1..Len(transitIsps.ids) |-> LET transitIspId == transitIsps.ids[n3] IN
        [facetItemId |->
           IF locations.type = "facet" THEN locationId
           ELSE IF clientIsps.type = "facet" THEN clientIspId ELSE transitIspId,
         breakdownByItemId |->
           IF locations.breakdownBy = "true" THEN locationId
           ELSE IF clientIsps.breakdownBy = "true" THEN clientIspId ELSE transitIspId,
         filterItemId |->
           IF locations.breakdownBy # "true" THEN locationId
           ELSE IF clientIsps.breakdownBy # "true" THEN clientIspId ELSE transitIspId,
         combined |->
           makeLocationClientIspTransitIspId(locationId, clientIspId, transitIspId)]]])])

\* variant: with no filter flagged, the breakdown id is that of the last
\* dimension that is not the facet, the filter id that of the first
locationClientIspTransitIspIdsNoFallThrough(locations, clientIsps, transitIsps) ==
  Flatten([n1 \in 1..Len(locations.ids) |-> LET locationId == locations.ids[n1] IN
    Flatten([n2 \in 1..Len(clientIsps.ids) |-> LET clientIspId == clientIsps.ids[n2] IN
      [n3 \in 1..Len(transitIsps.ids) |-> LET transitIspId == transitIsps.ids[n3] IN
        [facetItemId |->
           IF locations.type = "facet" THEN locationId
           ELSE IF clientIsps.type = "facet" THEN clientIspId ELSE transitIspId,
         breakdownByItemId |->
           IF locations.breakdownBy = "true" THEN locationId
           ELSE IF clientIsps.breakdownBy = "true" THEN clientIspId
           ELSE IF transitIsps.type = "facet" THEN clientIspId ELSE transitIspId,
         filterItemId |->
           IF locations.breakdownBy = "false" THEN locationId
           ELSE IF clientIsps.breakdownBy = "false" THEN clientIspId ELSE transitIspId,
         combined |->
           makeLocationClientIspTransitIspId(locationId, clientIspId, transitIspId)]]])])

\* case 'location-clientIsp-transitIsp'
locationClientIspTransitIspIds(locations, clientIsps, transitIsps) ==
  Flatten([n1 \in 1..Len(locations.ids) |-> LET locationId == locations.ids[n1] IN
    Flatten([n2 \in 1..Len(clientIsps.ids) |-> LET clientIspId == clientIsps.ids[n2] IN
      [n3 \in 1..Len(transitIsps.ids) |-> LET transitIspId == transitIsps.ids[n3] IN
        [facetItemId |->
           IF locations.type = "facet" THEN locationId
           ELSE IF clientIsps.type = "facet" THEN clientIspId ELSE transitIspId,
         breakdownByItemId |->
           IF locations.breakdownBy = "true" THEN locationId
           ELSE IF clientIsps.breakdownBy = "true" THEN clientIspId ELSE transitIspId,
         filterItemId |->
           IF locations.breakdownBy = "false" THEN locationId
           ELSE IF clientIsps.breakdownBy = "false" THEN clientIspId ELSE transitIspId,
         combined |->
           makeLocationClientIspTransitIspId(locationId, clientIspId, transitIspId)]]])])

\* the result function of getCombinedTypeAndIds
combinedTypeAndIds(facetType, facetItemIds, filterTypes, filter1Ids, filter2Ids, breakdownBy) ==
  LET combined == SortBySort(activeFilters(facetType, facetItemIds, filterTypes,
                                           filter1Ids, filter2Ids, breakdownBy))
      combinedType == JoinStr([n1 \in 1..Len(combined) |-> combined[n1].value], "-")
      combinedIds ==
        IF combinedType = "location-clientIsp"
          THEN locationClientIspIds(combined[1], combined[2])
        ELSE IF combinedType = "location-transitIsp"
          THEN locationTransitIspIds(combined[1], combined[2])
        ELSE IF combinedType = "clientIsp-transitIsp"
          THEN clientIspTransitIspIds(combined[1], combined[2])
        ELSE IF combinedType = "location-clientIsp-transitIsp"
          THEN locationClientIspTransitIspIds(combined[1], combined[2], combined[3])
        ELSE <<>>
  IN [combinedType |-> combinedType, combinedIds |-> combinedIds]

\* ------------------------------------------------------ fetchable resources

Statuses == {"not-fetched", "fetching", "success", "error"}

\* status(resource): the status of one fetchable resource
status(resource) == resource.status

\* status(statuses): error > fetching > not-fetched > success
statusOfAll(statuses) ==
  LET has(s) == \E i \in 1..Len(statuses) : statuses[i] = s
  IN IF has("error") THEN "error"
     ELSE IF has("fetching") THEN "fetching"
     ELSE IF has("not-fetched") THEN "not-fetched"
     ELSE "success"

\* a combined record { time: { timeSeries, hourly } }; data is <<>> when absent
\* and <<array>> when present
Resource(s, d) == [status |-> s, data |-> d]

CombinedRecord(timeSeries, hourly) ==
  [time |-> [timeSeries |-> timeSeries, hourly |-> hourly]]

\* a dated point of a series: a value for every metric, and a sample count
Point(v) ==
  [k \in {metrics[n1].dataKey : n1 \in 1..Len(metrics)} \cup {"count"} |->
     IF k = "count" THEN v + 1 ELSE IF k = metrics[1].dataKey THEN v ELSE 2 * v]

\* the data of a time series or an hourly resource: { results: [points] }
SeriesData(vs) == [results |-> [n1 \in 1..Len(vs) |-> Point(vs[n1])]]

\* the records the fetch layer can have stored under one key, one for each
\* status of the time series; n tells the records' data apart
RecordKinds(n) ==
  << CombinedRecord(Resource("success", << SeriesData(<<n, n + 1>>) >>),
                    Resource("success", << SeriesData(<<n>>) >>)),
     CombinedRecord(Resource("error", <<>>), Resource("fetching", <<>>)),
     CombinedRecord(Resource("fetching", << SeriesData(<<n>>) >>), Resource("error", <<>>)),
     CombinedRecord(Resource("not-fetched", <<>>), Resource("not-fetched", <<>>)) >>

\* --------------------------------------------------------------- the stores

CombinedTypes ==
  {"location-clientIsp", "location-transitIsp", "clientIsp-transitIsp",
   "location-clientIsp-transitIsp"}

NoRecords == [k \in {} |-> CombinedRecord(Resource("not-fetched", <<>>), Resource("not-fetched", <<>>))]

getLocationClientIsps(st) == st.locationClientIsps

getLocationTransitIsps(st) == st.locationTransitIsps

getClientIspTransitIsps(st) == st.clientIspTransitIsps

getLocationClientIspTransitIsps(st) == st.locationClientIspTransitIsps

\* ---------------------------------------------------------------- join lookup

\* source[id.combined], <<>> when the key is not in the store
lookup(source, key) == IF key \in DOMAIN source.recs THEN <<source.recs[key]>> ELSE <<>>

\* variant: 'location-transitIsp' mapped to the location-clientIsp store
combinedItemsWrongStore(typeAndIds, locationClientIsps, locationTransitIsps, clientIspTransitIsps, locationClientIspTransitIsps) ==
  LET combinedType == typeAndIds.combinedType
      combinedIds == typeAndIds.combinedIds
      source ==
        IF combinedType = "location-clientIsp" THEN <<locationClientIsps>>
        ELSE IF combinedType = "location-clientIsp-transitIsp" THEN <<locationClientIspTransitIsps>>
        ELSE IF combinedType = "location-transitIsp" THEN <<locationClientIsps>>
        ELSE IF combinedType = "clientIsp-transitIsp" THEN <<clientIspTransitIsps>>
        ELSE <<>>
  IN IF source # <<>>
       THEN LET looked == [n1 \in 1..Len(combinedIds) |->
                            [id |-> combinedIds[n1],
                             data |-> lookup(source[1], combinedIds[n1].combined)]]
                found == SelectSeq(looked, LAMBDA d : d.data # <<>>)
            IN [n1 \in 1..Len(found) |-> [id |-> found[n1].id, data |-> found[n1].data[1]]]
       ELSE <<>>

\* the result function of getCombinedItems; a store is [ref, recs]
combinedItems(typeAndIds, locationClientIsps, locationTransitIsps, clientIspTransitIsps, locationClientIspTransitIsps) ==
  LET combinedType == typeAndIds.combinedType
      combinedIds == typeAndIds.combinedIds
      source ==
        IF combinedType = "location-clientIsp" THEN <<locationClientIsps>>
        ELSE IF combinedType = "location-clientIsp-transitIsp" THEN <<locationClientIspTransitIsps>>
        ELSE IF combinedType = "location-transitIsp" THEN <<locationTransitIsps>>
        ELSE IF combinedType = "clientIsp-transitIsp" THEN <<clientIspTransitIsps>>
        ELSE <<>>
  IN IF source # <<>>
       THEN LET looked == [n1 \in 1..Len(combinedIds) |->
                            [id |-> combinedIds[n1],
                             data |-> lookup(source[1], combinedIds[n1].combined)]]
                found == SelectSeq(looked, LAMBDA d : d.data # <<>>)
            IN [n1 \in 1..Len(found) |-> [id |-> found[n1].id, data |-> found[n1].data[1]]]
       ELSE <<>>

\* ------------------------------------------------------------ grouping engine

\* the sum of the counts of the series that have a point at position t
RECURSIVE CountAt(_, _)
CountAt(data, t) ==
  IF data = <<>> THEN 0
  ELSE (IF Len(Head(data).results) >= t THEN Head(data).results[t].count ELSE 0)
       + CountAt(Tail(data), t)

RECURSIVE LongestResults(_)
LongestResults(data) ==
  IF data = <<>> THEN 0
  ELSE LET rest == LongestResults(Tail(data))
       IN IF Len(Head(data).results) > rest THEN Len(Head(data).results) ELSE rest

\* computeTimeSeriesCounts: the per-timestamp sample counts of a group's series
computeTimeSeriesCounts(combinedTimeSeries) ==
  [t \in 1..LongestResults(combinedTimeSeries.data) |->
     [count |-> CountAt(combinedTimeSeries.data, t)]]

\* variant: the group's status taken from its first member alone
combineTimeSeriesFirstStatus(itemsToCombine, viewMetric) ==
  LET timeSeriesToCombine ==
        [n1 \in 1..Len(itemsToCombine) |-> itemsToCombine[n1].data.time.timeSeries]
      statuses == [n1 \in 1..Len(timeSeriesToCombine) |-> status(timeSeriesToCombine[n1])]
      withData == SelectSeq(timeSeriesToCombine, LAMBDA t : t.data # <<>>)
      data == [n1 \in 1..Len(withData) |-> withData[n1].data[1]]
  IN [statuses |-> statuses, data |-> data, status |-> statuses[1],
      counts |-> computeTimeSeriesCounts([data |-> data])]

\* variant: a time series without data adds neither a status nor a data array
combineTimeSeriesSkipsStatus(itemsToCombine, viewMetric) ==
  LET timeSeriesToCombine ==
        [n1 \in 1..Len(itemsToCombine) |-> itemsToCombine[n1].data.time.timeSeries]
      withData == SelectSeq(timeSeriesToCombine, LAMBDA t : t.data # <<>>)
      statuses == [n1 \in 1..Len(withData) |-> status(withData[n1])]
      data == [n1 \in 1..Len(withData) |-> withData[n1].data[1]]
  IN [statuses |-> statuses, data |-> data, status |-> statusOfAll(statuses),
      counts |-> computeTimeSeriesCounts([data |-> data])]

\* combineTimeSeries: the reduce pushes every status, and the data that are
\* there
combineTimeSeries(itemsToCombine, viewMetric) ==
  LET timeSeriesToCombine ==
        [n1 \in 1..Len(itemsToCombine) |-> itemsToCombine[n1].data.time.timeSeries]
      statuses == [n1 \in 1..Len(timeSeriesToCombine) |-> status(timeSeriesToCombine[n1])]
      withData == SelectSeq(timeSeriesToCombine, LAMBDA t : t.data # <<>>)
      data == [n1 \in 1..Len(withData) |-> withData[n1].data[1]]
  IN [statuses |-> statuses, data |-> data, status |-> statusOfAll(statuses),
      counts |-> computeTimeSeriesCounts([data |-> data])]

\* an array whose type the code probes with Array.isArray
JsArray(s) == [elems |-> s]

isArray(v) == "elems" \in DOMAIN v

\* wrangleHourly: the chart-ready form of an hourly resource's data for a metric
wrangleHourly(hourlyData, viewMetric) ==
  [dataKey |-> viewMetric.dataKey, hourly |-> hourlyData]

\* variant: the entries carry the facet item's id
combineHourlyFacetId(itemsToCombine, viewMetric) ==
  JsArray([n1 \in 1..Len(itemsToCombine) |->
     [id |-> itemsToCombine[n1].id.facetItemId,
      data |-> itemsToCombine[n1].data.time.hourly.data,
      status |-> status(itemsToCombine[n1].data.time.hourly),
      wrangled |-> wrangleHourly(itemsToCombine[n1].data.time.hourly.data, viewMetric)]])

\* combineHourly: one entry for each item; data is <<>> when absent
combineHourly(itemsToCombine, viewMetric) ==
  JsArray([n1 \in 1..Len(itemsToCombine) |->
     [id |-> itemsToCombine[n1].id.filterItemId,
      data |-> itemsToCombine[n1].data.time.hourly.data,
      status |-> status(itemsToCombine[n1].data.time.hourly),
      wrangled |-> wrangleHourly(itemsToCombine[n1].data.time.hourly.data, viewMetric)]])

\* the combine function handed to combineData, by name
callCombine(combine, itemsToCombine, viewMetric) ==
  CASE combine = "combineTimeSeries" -> combineTimeSeries(itemsToCombine, viewMetric)
    [] combine = "combineHourly" -> combineHourly(itemsToCombine, viewMetric)

\* variant: only the first item of each key is kept
nestObjectFirstOnly(items, field) ==
  [k \in {ToString(items[n1].id[field]) : n1 \in 1..Len(items)} |->
     SubSeq(SelectSeq(items, LAMBDA item : ToString(item.id[field]) = k), 1, 1)]

\* d3.nest().key(d => d.id[field]).object(items): the items of each key, in
\* item order; the keys of the object are the ids as strings
nestObject(items, field) ==
  [k \in {ToString(items[n1].id[field]) : n1 \in 1..Len(items)} |->
     SelectSeq(items, LAMBDA item : ToString(item.id[field]) = k)]

\* variant: no early return, an empty mapping for no items
combineDataEmptyMapping(combine, combinedType, items, viewMetric) ==
  IF combinedType = "location-clientIsp-transitIsp"
    THEN << [f \in DOMAIN nestObject(items.elems, "facetItemId") |->
              [b \in DOMAIN nestObject(nestObject(items.elems, "facetItemId")[f],
                                       "breakdownByItemId") |->
                 callCombine(combine,
                   nestObject(nestObject(items.elems, "facetItemId")[f],
                              "breakdownByItemId")[b],
                   viewMetric)]] >>
  ELSE << [f \in DOMAIN nestObject(items.elems, "facetItemId") |->
            callCombine(combine, nestObject(items.elems, "facetItemId")[f],
                        viewMetric)] >>

\* combineData: <<>> is undefined, <<m>> the mapping m; items is the
\* combinedItems argument, an array or undefined
combineData(combine, combinedType, items, viewMetric) ==
  IF ~items.def \/ Len(items.elems) = 0 THEN <<>>
  ELSE IF combinedType = "location-clientIsp-transitIsp"
    THEN << [f \in DOMAIN nestObject(items.elems, "facetItemId") |->
              [b \in DOMAIN nestObject(nestObject(items.elems, "facetItemId")[f],
                                       "breakdownByItemId") |->
                 callCombine(combine,
                   nestObject(nestObject(items.elems, "facetItemId")[f],
                              "breakdownByItemId")[b],
                   viewMetric)]] >>
  ELSE << [f \in DOMAIN nestObject(items.elems, "facetItemId") |->
            callCombine(combine, nestObject(items.elems, "facetItemId")[f],
                        viewMetric)] >>

\* the result function of getCombinedTimeSeries
combinedTimeSeries(typeAndIds, facetItemIds, items, viewMetric) ==
  combineData("combineTimeSeries", typeAndIds.combinedType, Arr(0, items), viewMetric)

\* the result function of getCombinedHourly
combinedHourly(typeAndIds, facetItemIds, items, viewMetric) ==
  combineData("combineHourly", typeAndIds.combinedType, Arr(0, items), viewMetric)

\* ------------------------------------------------------------ extents

\* the keys an object indexed by ids can have, in the order d3.values lists
\* them
IdKeys == [n1 \in 1..(MaxIds + 1) |-> ToString(n1)]

\* d3.values(object)
values(object) ==
  LET keys == SelectSeq(IdKeys, LAMBDA k : k \in DOMAIN object)
  IN [n1 \in 1..Len(keys) |-> object[keys[n1]]]

\* the least and the greatest of a set of numbers
Least(S) == CHOOSE x \in S : \A y \in S : x <= y
Greatest(S) == CHOOSE x \in S : \A y \in S : x >= y

\* multiExtent: [min, max] of the field over the points of all the arrays,
\* <<>> (undefined) when there is no point
multiExtent(arrays, field) ==
  LET found == UNION {{arrays[n1][n2][field] : n2 \in 1..Len(arrays[n1])} :
                        n1 \in 1..Len(arrays)}
  IN IF found = {} THEN <<>> ELSE <<Least(found), Greatest(found)>>

\* an object with no key
EmptyObject == [k \in {} |-> <<>>]

\* computeTimeSeriesExtents: an object with the keys that were assigned
computeTimeSeriesExtents(flattenedTimeSeries, dataKey) ==
  LET hasData == "data" \in DOMAIN flattenedTimeSeries /\ Len(flattenedTimeSeries.data) # 0
      hasCounts == "counts" \in DOMAIN flattenedTimeSeries /\ Len(flattenedTimeSeries.counts) # 0
  IN [k \in (IF hasData THEN {dataKey} ELSE {}) \cup (IF hasCounts THEN {"count"} ELSE {}) |->
        IF k = "count"
          THEN multiExtent(flattenedTimeSeries.counts, "count")
          ELSE multiExtent([n1 \in 1..Len(flattenedTimeSeries.data) |->
                              flattenedTimeSeries.data[n1].results], dataKey)]

\* flattenCombinedTimeSeries: the groups of one or two levels in one list
flattenCombinedTimeSeries(combinedTimeSeriesArg) ==
  IF combinedTimeSeriesArg = <<>> THEN EmptyObject
  ELSE LET top == values(combinedTimeSeriesArg[1])
           flat == IF Len(top) # 0 /\ "status" \notin DOMAIN top[1]
                     THEN Flatten([n1 \in 1..Len(top) |-> values(top[n1])])
                     ELSE top
           results == SelectSeq(flat, LAMBDA d : "data" \in DOMAIN d)
       IN [data |-> Flatten([n1 \in 1..Len(results) |-> results[n1].data]),
           counts |-> [n1 \in 1..Len(results) |-> results[n1].counts]]

\* the result function of getCombinedTimeSeriesExtents
combinedTimeSeriesExtents(combinedTimeSeriesArg, viewMetric) ==
  computeTimeSeriesExtents(flattenCombinedTimeSeries(combinedTimeSeriesArg), viewMetric.dataKey)

\* flattenCombinedHourly: the entries of all groups in one list
flattenCombinedHourly(combinedHourlyArg) ==
  IF combinedHourlyArg = <<>> THEN <<>>
  ELSE LET top == values(combinedHourlyArg[1])
           flat == IF Len(top) # 0 /\ ~isArray(top[1])
                     THEN Flatten([n1 \in 1..Len(top) |-> values(top[n1])])
                     ELSE top
       IN Flatten([n1 \in 1..Len(flat) |-> flat[n1].elems])

\* computeHourlyExtents: the extent of the metric over the entries' data
computeHourlyExtents(hourlyList, dataKey) ==
  LET withData == SelectSeq(hourlyList, LAMBDA d : d.data # <<>>)
  IN [k \in (IF Len(withData) # 0 THEN {dataKey} ELSE {}) |->
        multiExtent([n1 \in 1..Len(withData) |-> withData[n1].data[1].results], dataKey)]

\* the result function of getCombinedHourlyExtents
combinedHourlyExtents(combinedHourlyArg, viewMetric) ==
  computeHourlyExtents(flattenCombinedHourly(combinedHourlyArg), viewMetric.dataKey)

\* -------------------------------------------------------- writes in place
\* A call changes an object that exists already only through an array method
\* that changes its receiver (push, sort) or through an assignment to a
\* property. Write(target, field, value): the object of identity target holds
\* value in field afterwards. The arrays and objects a call allocates itself
\* (literals, the results of map, filter, concat, slice and d3.nest) carry the
\* identity the call allocates, fresh.

Write(target, field, value) == [target |-> target, field |-> field, value |-> value]

\* an object after the writes of a call
RECURSIVE afterWrites(_, _)
afterWrites(object, writes) ==
  IF Len(writes) = 0 THEN object
  ELSE afterWrites(IF object.ref = Head(writes).target
                     THEN [object EXCEPT ![Head(writes).field] = Head(writes).value]
                     ELSE object,
                   Tail(writes))

\* variant: the ids of the first filter are reversed where they are
combinedTypeAndIdsWritesSortIds(facetType, facetItemIds, filterTypes, filter1Ids, filter2Ids, breakdownBy, fresh) ==
  IF filter1Ids.def
    THEN <<Write(filter1Ids.ref, "elems",
                 [n1 \in 1..Len(filter1Ids.elems) |->
                    filter1Ids.elems[Len(filter1Ids.elems) + 1 - n1]])>>
    ELSE <<>>

\* the result function of getCombinedTypeAndIds: combined.push and
\* combined.sort write the array literal combined, combinedIds.push the array
\* literal combinedIds
combinedTypeAndIdsWrites(facetType, facetItemIds, filterTypes, filter1Ids, filter2Ids, breakdownBy, fresh) ==
  <<Write(fresh, "combined",
          SortBySort(activeFilters(facetType, facetItemIds, filterTypes,
                                   filter1Ids, filter2Ids, breakdownBy))),
    Write(fresh, "combinedIds",
          combinedTypeAndIds(facetType, facetItemIds, filterTypes,
                             filter1Ids, filter2Ids, breakdownBy).combinedIds)>>

\* the result function of getCombinedItems: map and filter build new arrays
combinedItemsWrites == <<>>

\* combineData with a combine function: past the early return, the groups of
\* the object d3.nest built are replaced by their combined results, which
\* combineTimeSeries builds by push and assignment on the object literal of
\* its reduce, and combineHourly by map
combineDataWrites(combined, fresh) ==
  IF Len(combined) = 0 THEN <<>> ELSE <<Write(fresh, "val", combined)>>

\* topFilter: filter and slice build new arrays
topFilterWrites == <<>>

\* computeTimeSeriesExtents and computeHourlyExtents assign to the object
\* literal extents
extentsWrites(extents, fresh) == <<Write(fresh, "val", extents)>>

\* ------------------------------------------------------------ memoization

\* createSelector: the result function runs when some input selector's result
\* is not === the one of the previous run (defaultMemoize, one entry). With
\* outerMemo the selector is memoized on the identity of (state, props) too.
\* ms = [heap, memo, writes] is the machine state threaded through the nested
\* calls: writes are the writes in place of the result functions that ran.

EmptyCache(result) ==
  [filled |-> FALSE, args |-> <<>>, outer |-> <<>>, result |-> result, recomputations |-> 0]

NoTypeAndIds == [ref |-> 0, combinedType |-> "", combinedIds |-> <<>>]
NoItems == [ref |-> 0, elems |-> <<>>]
NoTimeSeries == [ref |-> 0, val |-> <<>>]
NoTop == [ref |-> 0, data |-> <<>>, status |-> "not-fetched"]
NoHourly == [ref |-> 0, val |-> <<>>]
NoExtents == [ref |-> 0, val |-> EmptyObject]

EmptyMemo ==
  [getCombinedTypeAndIds |-> EmptyCache(NoTypeAndIds),
   getCombinedItems      |-> EmptyCache(NoItems),
   getCombinedTimeSeries |-> EmptyCache(NoTimeSeries),
   getTopFilter1         |-> EmptyCache(NoTop),
   getTopFilter2         |-> EmptyCache(NoTop),
   getCombinedHourly     |-> EmptyCache(NoHourly),
   getCombinedTimeSeriesExtents |-> EmptyCache(NoExtents),
   getCombinedHourlyExtents     |-> EmptyCache(NoExtents)]

\* variant: the cache answers whenever the props are the same object
outerHitPropsOnly(ms, name, st, p) ==
  outerMemo /\ ms.memo[name].filled /\ ms.memo[name].outer[2] = p.ref

\* the selector's cache answers without running the input selectors
outerHit(ms, name, st, p) ==
  outerMemo /\ ms.memo[name].filled /\ ms.memo[name].outer = <<st.ref, p.ref>>

\* the element of a one-element set: TheOne({e(v) : v \in {x}}) is e(x), with
\* x evaluated once
TheOne(S) == CHOOSE r \in S : TRUE

\* memoizedResultFunc: args are the input selectors' results, fresh the result
\* function applied to them, built at identity ms.heap, writes what it wrote
\* in place on the way
memoized(ms, name, st, p, args, fresh, writes) ==
  IF ms.memo[name].filled /\ ms.memo[name].args = args
    THEN [ms |-> [ms EXCEPT !.memo[name].outer = <<st.ref, p.ref>>],
          val |-> ms.memo[name].result]
    ELSE TheOne({
           [ms |-> [heap |-> ms.heap + 1,
                    memo |-> [ms.memo EXCEPT ![name] =
                                [filled |-> TRUE, args |-> args, outer |-> <<st.ref, p.ref>>,
                                 result |-> r,
                                 recomputations |-> ms.memo[name].recomputations + 1]],
                    writes |-> ms.writes \o writes],
            val |-> r] : r \in {fresh}})

\* a result that may be undefined: the object built at identity fresh, or
\* undefined, which has no identity (undefined === undefined)
optionalResult(fresh, val) ==
  [ref |-> IF Len(val) = 0 THEN Undefined.ref ELSE fresh, val |-> val]

\* getFilterTypes as an input selector: its array is allocated by the call
FreshFilterTypes(ms, st, p) ==
  [ms |-> [ms EXCEPT !.heap = ms.heap + 1],
   val |-> Arr(ms.heap, getFilterTypes(st, p))]

getCombinedTypeAndIds(ms, st, p) ==
  IF outerHit(ms, "getCombinedTypeAndIds", st, p)
    THEN [ms |-> ms, val |-> ms.memo.getCombinedTypeAndIds.result]
    ELSE TheOne({
           memoized(ft.ms, "getCombinedTypeAndIds", st, p,
             <<getFacetType(st, p).value, getFacetItemIds(st, p).ref, ft.val.ref,
               getFilter1Ids(st, p).ref, getFilter2Ids(st, p).ref, getBreakdownBy(st, p)>>,
             [ref |-> ft.ms.heap] @@
               combinedTypeAndIds(getFacetType(st, p), getFacetItemIds(st, p), ft.val.elems,
                                  getFilter1Ids(st, p), getFilter2Ids(st, p),
                                  getBreakdownBy(st, p)),
             combinedTypeAndIdsWrites(getFacetType(st, p), getFacetItemIds(st, p),
                                      ft.val.elems, getFilter1Ids(st, p),
                                      getFilter2Ids(st, p), getBreakdownBy(st, p),
                                      ft.ms.heap))
           : ft \in {FreshFilterTypes(ms, st, p)}})

getCombinedItems(ms, st, p) ==
  IF outerHit(ms, "getCombinedItems", st, p)
    THEN [ms |-> ms, val |-> ms.memo.getCombinedItems.result]
    ELSE TheOne({
           memoized(t.ms, "getCombinedItems", st, p,
             <<t.val.ref, getLocationClientIsps(st).ref, getLocationTransitIsps(st).ref,
               getClientIspTransitIsps(st).ref, getLocationClientIspTransitIsps(st).ref>>,
             [ref |-> t.ms.heap,
              elems |-> combinedItems(t.val, getLocationClientIsps(st),
                          getLocationTransitIsps(st), getClientIspTransitIsps(st),
                          getLocationClientIspTransitIsps(st))],
             combinedItemsWrites)
           : t \in {getCombinedTypeAndIds(ms, st, p)}})

getViewMetric(st, p) == extractMetric(p.viewMetric)

getCombinedTimeSeries(ms, st, p) ==
  IF outerHit(ms, "getCombinedTimeSeries", st, p)
    THEN [ms |-> ms, val |-> ms.memo.getCombinedTimeSeries.result]
    ELSE TheOne({ TheOne({
           memoized(i.ms, "getCombinedTimeSeries", st, p,
             <<t.val.ref, getFacetItemIds(st, p).ref, i.val.ref, getViewMetric(st, p)>>,
             optionalResult(i.ms.heap,
               combinedTimeSeries(t.val, getFacetItemIds(st, p), i.val.elems,
                                  getViewMetric(st, p))),
             combineDataWrites(combinedTimeSeries(t.val, getFacetItemIds(st, p), i.val.elems,
                                                  getViewMetric(st, p)), i.ms.heap))
           : i \in {getCombinedItems(t.ms, st, p)}})
           : t \in {getCombinedTypeAndIds(ms, st, p)}})

getCombinedTimeSeriesExtents(ms, st, p) ==
  IF outerHit(ms, "getCombinedTimeSeriesExtents", st, p)
    THEN [ms |-> ms, val |-> ms.memo.getCombinedTimeSeriesExtents.result]
    ELSE TheOne({
           memoized(c.ms, "getCombinedTimeSeriesExtents", st, p,
             <<c.val.ref, getViewMetric(st, p)>>,
             [ref |-> c.ms.heap,
              val |-> combinedTimeSeriesExtents(c.val.val, getViewMetric(st, p))],
             extentsWrites(combinedTimeSeriesExtents(c.val.val, getViewMetric(st, p)),
                           c.ms.heap))
           : c \in {getCombinedTimeSeries(ms, st, p)}})

getCombinedHourly(ms, st, p) ==
  IF outerHit(ms, "getCombinedHourly", st, p)
    THEN [ms |-> ms, val |-> ms.memo.getCombinedHourly.result]
    ELSE TheOne({ TheOne({
           memoized(i.ms, "getCombinedHourly", st, p,
             <<t.val.ref, getFacetItemIds(st, p).ref, i.val.ref, getViewMetric(st, p)>>,
             optionalResult(i.ms.heap,
               combinedHourly(t.val, getFacetItemIds(st, p), i.val.elems,
                              getViewMetric(st, p))),
             combineDataWrites(combinedHourly(t.val, getFacetItemIds(st, p), i.val.elems,
                                              getViewMetric(st, p)), i.ms.heap))
           : i \in {getCombinedItems(t.ms, st, p)}})
           : t \in {getCombinedTypeAndIds(ms, st, p)}})

getCombinedHourlyExtents(ms, st, p) ==
  IF outerHit(ms, "getCombinedHourlyExtents", st, p)
    THEN [ms |-> ms, val |-> ms.memo.getCombinedHourlyExtents.result]
    ELSE TheOne({
           memoized(c.ms, "getCombinedHourlyExtents", st, p,
             <<c.val.ref, getViewMetric(st, p)>>,
             [ref |-> c.ms.heap,
              val |-> combinedHourlyExtents(c.val.val, getViewMetric(st, p))],
             extentsWrites(combinedHourlyExtents(c.val.val, getViewMetric(st, p)),
                           c.ms.heap))
           : c \in {getCombinedHourly(ms, st, p)}})

\* ------------------------------------------------- the dashboard component

\* this.state as the constructor leaves it; data is the list of the rows held
Constructed ==
  [regionId |-> "NA/US/ND", regionLabel |-> "North Dakota", year |-> 2020,
   data |-> <<>>, isFetching |-> TRUE]

\* ------------------------------------------------------------------ actions

\* the machine state a call starts with
Machine == [heap |-> heap, memo |-> memo, writes |-> <<>>]

\* the id lists of the props after the writes of a call
propsAfter(p, writes) ==
  [p EXCEPT !.facetItemIds = afterWrites(@, writes),
            !.filter1Ids = afterWrites(@, writes),
            !.filter2Ids = afterWrites(@, writes)]

\* the stores of the state after the writes of a call
stateAfter(st, writes) ==
  [f \in DOMAIN st |-> IF f = "ref" THEN st.ref ELSE afterWrites(st[f], writes)]

\* the joined item list a selector holds, after the writes of a call
memoAfter(m, writes) ==
  [m EXCEPT !.getCombinedItems.result = afterWrites(@, writes)]

NoRet ==
  [filterTypes |-> <<>>, typeAndIds |-> NoTypeAndIds, items |-> NoItems,
   timeSeries |-> NoTimeSeries, top |-> NoTop, hourly |-> NoHourly,
   timeSeriesExtents |-> NoExtents, hourlyExtents |-> NoExtents,
   combineData |-> [combine |-> "", combinedType |-> "", items |-> Undefined, val |-> <<>>]]

CallGetFilterTypes ==
  /\ fuel > 0
  /\ fuel' = fuel - 1
  /\ op' = "getFilterTypes"
  /\ ret' = [ret EXCEPT !.filterTypes = getFilterTypes(state, props)]
  /\ heap' = heap + 1
  /\ UNCHANGED <<props, state, memo, outerMemo>>
  /\ UNCHANGED <<dashboard, requests>>

CallGetCombinedTypeAndIds ==
  /\ fuel > 0
  /\ fuel' = fuel - 1
  /\ op' = "getCombinedTypeAndIds"
  /\ \E t \in {getCombinedTypeAndIds(Machine, state, props)} :
        /\ heap' = t.ms.heap
        /\ props' = propsAfter(props, t.ms.writes)
        /\ state' = stateAfter(state, t.ms.writes)
        /\ memo' = memoAfter(t.ms.memo, t.ms.writes)
        /\ ret' = [ret EXCEPT !.typeAndIds = t.val]
  /\ UNCHANGED outerMemo
  /\ UNCHANGED <<dashboard, requests>>

CallGetCombinedItems ==
  /\ fuel > 0
  /\ fuel' = fuel - 1
  /\ op' = "getCombinedItems"
  /\ \E i \in {getCombinedItems(Machine, state, props)} :
        /\ heap' = i.ms.heap
        /\ props' = propsAfter(props, i.ms.writes)
        /\ state' = stateAfter(state, i.ms.writes)
        /\ memo' = memoAfter(i.ms.memo, i.ms.writes)
        /\ ret' = [ret EXCEPT !.items = i.val,
                              !.typeAndIds = i.ms.memo.getCombinedTypeAndIds.result]
  /\ UNCHANGED outerMemo
  /\ UNCHANGED <<dashboard, requests>>

CallGetCombinedTimeSeries ==
  /\ fuel > 0
  /\ fuel' = fuel - 1
  /\ op' = "getCombinedTimeSeries"
  /\ \E s \in {getCombinedTimeSeries(Machine, state, props)} :
        /\ heap' = s.ms.heap
        /\ props' = propsAfter(props, s.ms.writes)
        /\ state' = stateAfter(state, s.ms.writes)
        /\ memo' = memoAfter(s.ms.memo, s.ms.writes)
        /\ ret' = [ret EXCEPT !.timeSeries = s.val,
                              !.items = afterWrites(s.ms.memo.getCombinedItems.result, s.ms.writes),
                              !.typeAndIds = s.ms.memo.getCombinedTypeAndIds.result]
  /\ UNCHANGED outerMemo
  /\ UNCHANGED <<dashboard, requests>>

CallGetCombinedTimeSeriesExtents ==
  /\ fuel > 0
  /\ fuel' = fuel - 1
  /\ op' = "getCombinedTimeSeriesExtents"
  /\ \E e \in {getCombinedTimeSeriesExtents(Machine, state, props)} :
        /\ heap' = e.ms.heap
        /\ props' = propsAfter(props, e.ms.writes)
        /\ state' = stateAfter(state, e.ms.writes)
        /\ memo' = memoAfter(e.ms.memo, e.ms.writes)
        /\ ret' = [ret EXCEPT !.timeSeriesExtents = e.val,
                              !.timeSeries = e.ms.memo.getCombinedTimeSeries.result,
                              !.items = afterWrites(e.ms.memo.getCombinedItems.result, e.ms.writes),
                              !.typeAndIds = e.ms.memo.getCombinedTypeAndIds.result]
  /\ UNCHANGED outerMemo
  /\ UNCHANGED <<dashboard, requests>>

CallGetCombinedHourly ==
  /\ fuel > 0
  /\ fuel' = fuel - 1
  /\ op' = "getCombinedHourly"
  /\ \E h \in {getCombinedHourly(Machine, state, props)} :
        /\ heap' = h.ms.heap
        /\ props' = propsAfter(props, h.ms.writes)
        /\ state' = stateAfter(state, h.ms.writes)
        /\ memo' = memoAfter(h.ms.memo, h.ms.writes)
        /\ ret' = [ret EXCEPT !.hourly = h.val,
                              !.items = afterWrites(h.ms.memo.getCombinedItems.result, h.ms.writes),
                              !.typeAndIds = h.ms.memo.getCombinedTypeAndIds.result]
  /\ UNCHANGED outerMemo
  /\ UNCHANGED <<dashboard, requests>>

CallGetCombinedHourlyExtents ==
  /\ fuel > 0
  /\ fuel' = fuel - 1
  /\ op' = "getCombinedHourlyExtents"
  /\ \E e \in {getCombinedHourlyExtents(Machine, state, props)} :
        /\ heap' = e.ms.heap
        /\ props' = propsAfter(props, e.ms.writes)
        /\ state' = stateAfter(state, e.ms.writes)
        /\ memo' = memoAfter(e.ms.memo, e.ms.writes)
        /\ ret' = [ret EXCEPT !.hourlyExtents = e.val,
                              !.hourly = e.ms.memo.getCombinedHourly.result,
                              !.items = afterWrites(e.ms.memo.getCombinedItems.result, e.ms.writes),
                              !.typeAndIds = e.ms.memo.getCombinedTypeAndIds.result]
  /\ UNCHANGED outerMemo
  /\ UNCHANGED <<dashboard, requests>>

\* combineData called by itself with a combine function, the combined type of
\* the props and, as combinedItems, the join of the props and the state or
\* undefined
CallCombineData ==
  /\ fuel > 0
  /\ fuel' = fuel - 1
  /\ op' = "combineData"
  /\ \E combine \in {"combineTimeSeries", "combineHourly"}, given \in BOOLEAN :
       \E t \in {combinedTypeAndIds(getFacetType(state, props), getFacetItemIds(state, props),
                                    getFilterTypes(state, props), getFilter1Ids(state, props),
                                    getFilter2Ids(state, props), getBreakdownBy(state, props))} :
         \E items \in {IF given
                         THEN Arr(heap, combinedItems(t, getLocationClientIsps(state),
                                          getLocationTransitIsps(state),
                                          getClientIspTransitIsps(state),
                                          getLocationClientIspTransitIsps(state)))
                         ELSE Undefined} :
           \E combined \in {combineData(combine, t.combinedType, items,
                                         getViewMetric(state, props))} :
             /\ ret' = [ret EXCEPT !.combineData =
                          [combine |-> combine, combinedType |-> t.combinedType,
                           items |-> items, val |-> combined]]
             /\ props' = propsAfter(props, combineDataWrites(combined, heap + 1))
             /\ state' = stateAfter(state, combineDataWrites(combined, heap + 1))
  /\ heap' = heap + 2
  /\ UNCHANGED <<memo, outerMemo>>
  /\ UNCHANGED <<dashboard, requests>>

CallSelector ==
  \/ CallGetFilterTypes
  \/ CallGetCombinedTypeAndIds
  \/ CallGetCombinedItems
  \/ CallGetCombinedTimeSeries
  \/ CallGetCombinedTimeSeriesExtents
  \/ CallGetCombinedHourly
  \/ CallGetCombinedHourlyExtents

\* ------------------------------------------------- the expander on all inputs

Dimensions == {"location", "clientIsp", "transitIsp"}

\* props.facetType as the URL gives it: a dimension, an unknown value, nothing
FacetTypeValues == Dimensions \cup {"bogus", "undefined"}

BreakdownByValues == {"filter1", "filter2", "undefined"}

\* an id list of the props: undefined, or an array of up to MaxIds ids
IdArrays(r) == {Undefined} \cup {Arr(r, s) : s \in SeqsUpTo(Ids, MaxIds)}

Props(facetType, facetItemIds, filter1Ids, filter2Ids, breakdownBy) ==
  [ref |-> 1, facetType |-> facetType, facetItemIds |-> facetItemIds,
   filter1Ids |-> filter1Ids, filter2Ids |-> filter2Ids, breakdownBy |-> breakdownBy,
   viewMetric |-> "download"]

Store(r, recs) == [ref |-> r, recs |-> recs]

EmptyState ==
  [ref |-> 5,
   locationClientIsps |-> Store(6, NoRecords),
   locationTransitIsps |-> Store(7, NoRecords),
   clientIspTransitIsps |-> Store(8, NoRecords),
   locationClientIspTransitIsps |-> Store(9, NoRecords)]

\* identities below this one are those of the initial props and state
FirstFree == EmptyState.locationClientIspTransitIsps.ref + 1

InitExpand ==
  /\ props \in {Props(t, a, b, c, d) :
                  t \in FacetTypeValues, a \in IdArrays(2), b \in IdArrays(3),
                  c \in IdArrays(4), d \in BreakdownByValues}
  /\ state = EmptyState
  /\ memo = EmptyMemo
  /\ outerMemo = FALSE
  /\ heap = FirstFree
  /\ ret = NoRet
  /\ op = "init"
  /\ fuel = 1
  /\ dashboard = Constructed
  /\ requests = <<>>

NextExpand == CallGetFilterTypes \/ CallGetCombinedTypeAndIds

SpecExpand == InitExpand /\ [][NextExpand]_vars

\* ---------------------------------------------- the selection, as the claims
\* ---------------------------------------------- speak of it

CanonicalOrder == <<"location", "clientIsp", "transitIsp">>

\* the two other dimensions of a facet dimension, filter1's first
OtherDimensions ==
  [location   |-> <<"clientIsp", "transitIsp">>,
   clientIsp  |-> <<"location", "transitIsp">>,
   transitIsp |-> <<"location", "clientIsp">>]

\* position of a dimension in the canonical order
Position(d) == CHOOSE i \in 1..3 : CanonicalOrder[i] = d

FacetDimension == IF props.facetType \in Dimensions THEN props.facetType ELSE "location"
Filter1Dimension == OtherDimensions[FacetDimension][1]
Filter2Dimension == OtherDimensions[FacetDimension][2]

FacetIds == props.facetItemIds.elems
Filter1Active == props.filter1Ids.elems # <<>>
Filter2Active == props.filter2Ids.elems # <<>>

ActiveDimensions ==
  {FacetDimension} \cup (IF Filter1Active THEN {Filter1Dimension} ELSE {})
                   \cup (IF Filter2Active THEN {Filter2Dimension} ELSE {})

\* the id list a selection gives for a dimension
IdsOf(d) ==
  IF d = FacetDimension THEN FacetIds
  ELSE IF d = Filter1Dimension THEN props.filter1Ids.elems
  ELSE props.filter2Ids.elems

Expanded == op = "getCombinedTypeAndIds"

\* C1: with two or three active dimensions, combinedIds has as many entries as
\* the product of the active dimensions' id-list lengths (0 for an empty facet
\* id list).
C1_CrossProductSize ==
  (Expanded /\ Cardinality(ActiveDimensions) >= 2) =>
    Len(ret.typeAndIds.combinedIds) =
      Len(FacetIds)
        * (IF Filter1Active THEN Len(props.filter1Ids.elems) ELSE 1)
        * (IF Filter2Active THEN Len(props.filter2Ids.elems) ELSE 1)

C1_Witness ==
  /\ Expanded
  /\ Len(FacetIds) = 2 /\ Len(props.filter1Ids.elems) = 2 /\ Len(props.filter2Ids.elems) = 1
  /\ Len(ret.typeAndIds.combinedIds) = 4

\* C2: combinedType is the names of the active dimensions joined by '-' in the
\* order location, clientIsp, transitIsp, whichever role each dimension holds.
C2_TypeOfActiveSet ==
  Expanded =>
    ret.typeAndIds.combinedType =
      JoinStr(SelectSeq(CanonicalOrder, LAMBDA d : d \in ActiveDimensions), "-")

C2_Witness ==
  /\ Expanded
  /\ FacetDimension = "transitIsp" /\ Filter1Active /\ ~Filter2Active
  /\ ret.typeAndIds.combinedType = "location-transitIsp"

\* the entries of a 2-dimension selection as C3 lists them: the dimension
\* earlier in the canonical order is the outer loop
PairEntries(facet, filter) ==
  LET facetFirst == Position(facet) < Position(filter)
      outer == IF facetFirst THEN IdsOf(facet) ELSE IdsOf(filter)
      inner == IF facetFirst THEN IdsOf(filter) ELSE IdsOf(facet)
  IN [k \in 1..(Len(outer) * Len(inner)) |->
        LET a == outer[((k - 1) \div Len(inner)) + 1]
            b == inner[((k - 1) % Len(inner)) + 1]
        IN [facetItemId  |-> IF facetFirst THEN a ELSE b,
            filterItemId |-> IF facetFirst THEN b ELSE a,
            combined     |-> <<a, b>>]]

\* C3: in a 2-dimension case every entry carries the facet dimension's id as
\* facetItemId and the filter dimension's id as filterItemId, its key holds the
\* two ids in canonical dimension order, and the entries are listed with the
\* canonically earlier dimension as the outer loop.
C3_PairEntries ==
  (Expanded /\ Cardinality(ActiveDimensions) = 2) =>
    ret.typeAndIds.combinedIds =
      PairEntries(FacetDimension,
                  IF Filter1Active THEN Filter1Dimension ELSE Filter2Dimension)

C3_Witness ==
  /\ Expanded
  /\ FacetDimension = "transitIsp" /\ ~Filter1Active /\ Filter2Active
  /\ FacetIds = <<2, 1>> /\ props.filter2Ids.elems = <<1, 2>>
  /\ ret.typeAndIds.combinedIds[1] =
       [facetItemId |-> 2, filterItemId |-> 1, combined |-> <<1, 2>>]
  /\ ret.typeAndIds.combinedIds[2] =
       [facetItemId |-> 1, filterItemId |-> 1, combined |-> <<1, 1>>]

\* C4: in the 3-dimension case with breakdownBy filter1 (filter2), every entry
\* has breakdownByItemId the id of the filter1 (filter2) dimension, filterItemId
\* the id of the other filter dimension and facetItemId the facet dimension's.
C4_BreakdownRoles ==
  (Expanded /\ Cardinality(ActiveDimensions) = 3
            /\ props.breakdownBy \in {"filter1", "filter2"}) =>
    LET breakdown == IF props.breakdownBy = "filter1" THEN Filter1Dimension ELSE Filter2Dimension
        other == IF props.breakdownBy = "filter1" THEN Filter2Dimension ELSE Filter1Dimension
        ids == ret.typeAndIds.combinedIds
    IN \A i \in 1..Len(ids) :
         /\ \A d \in Dimensions :
              \E j \in 1..Len(IdsOf(d)) : ids[i].combined[Position(d)] = IdsOf(d)[j]
         /\ ids[i].breakdownByItemId = ids[i].combined[Position(breakdown)]
         /\ ids[i].filterItemId = ids[i].combined[Position(other)]
         /\ ids[i].facetItemId = ids[i].combined[Position(FacetDimension)]

C4_Witness ==
  /\ Expanded
  /\ FacetDimension = "transitIsp" /\ props.breakdownBy = "filter2"
  /\ Cardinality(ActiveDimensions) = 3
  /\ \E i \in 1..Len(ret.typeAndIds.combinedIds) :
       /\ ret.typeAndIds.combinedIds[i].combined = <<1, 2, 1>>
       /\ ret.typeAndIds.combinedIds[i].breakdownByItemId = 2
       /\ ret.typeAndIds.combinedIds[i].filterItemId = 1

\* C5: for a facet type that is one of the three dimensions, getFilterTypes
\* returns the two other dimensions, location -> [clientIsp, transitIsp],
\* clientIsp -> [location, transitIsp], transitIsp -> [location, clientIsp],
\* whatever was called before.
C5_FilterTypes ==
  (op = "getFilterTypes" /\ props.facetType \in Dimensions) =>
    [n1 \in 1..Len(ret.filterTypes) |-> ret.filterTypes[n1].value] = OtherDimensions[props.facetType]

\* a getFilterTypes call for transitIsp made after two other selector calls
C5_Witness ==
  /\ op = "getFilterTypes"
  /\ fuel <= MaxCalls - 3
  /\ memo.getCombinedTypeAndIds.filled
  /\ props.facetType = "transitIsp"
  /\ [n1 \in 1..Len(ret.filterTypes) |-> ret.filterTypes[n1].value] = <<"location", "clientIsp">>

\* C8 as stated: a facet-only selection yields combinedType '' and no ids.
C8_FacetOnlyEmptyType ==
  (Expanded /\ ~Filter1Active /\ ~Filter2Active) =>
    (ret.typeAndIds.combinedType = "" /\ ret.typeAndIds.combinedIds = <<>>)

\* C8 amended: a facet-only selection yields the facet dimension's name as
\* combinedType (location for an unknown facet type) and no combined ids.
C8_FacetOnlyFacetName ==
  (Expanded /\ ~Filter1Active /\ ~Filter2Active) =>
    (ret.typeAndIds.combinedType = FacetDimension /\ ret.typeAndIds.combinedIds = <<>>)

C8_Witness ==
  /\ Expanded
  /\ props.facetType = "location" /\ FacetIds = <<1, 2>>
  /\ ~props.filter1Ids.def /\ ~props.filter2Ids.def
  /\ ret.typeAndIds.combinedType = "location"
  /\ ret.typeAndIds.combinedIds = <<>>

\* C9 as stated: an unknown or missing facet type yields no filter types.
C9_UnknownFacetNoFilterTypes ==
  (op = "getFilterTypes" /\ props.facetType \notin Dimensions) => ret.filterTypes = <<>>

\* C9 amended: an unknown or missing facet type is resolved to location, and
\* getFilterTypes returns location's filter types [clientIsp, transitIsp].
C9_UnknownFacetAsLocation ==
  (op = "getFilterTypes" /\ props.facetType \notin Dimensions) =>
    [n1 \in 1..Len(ret.filterTypes) |-> ret.filterTypes[n1].value] = <<"clientIsp", "transitIsp">>

C9_Witness ==
  /\ op = "getFilterTypes"
  /\ props.facetType = "bogus"
  /\ Len(ret.filterTypes) = 2

\* ------------------------------------------- the join and the grouping on all
\* ------------------------------------------- small selections and stores

\* records held for the selected combinations
MaxRecords == 2

\* the keys of the cross product of id lists, in lexicographic order
RECURSIVE ProductKeys(_)
ProductKeys(lists) ==
  IF lists = <<>> THEN << <<>> >>
  ELSE LET rest == ProductKeys(Tail(lists))
       IN Flatten([n1 \in 1..Len(Head(lists)) |->
                     [n2 \in 1..Len(rest) |-> <<Head(lists)[n1]>> \o rest[n2]]])

SelectedDimensions == SelectSeq(CanonicalOrder, LAMBDA d : d \in ActiveDimensions)

\* the keys the page fetches records for: the selected combinations
SelectedKeys == ProductKeys([n1 \in 1..Len(SelectedDimensions) |-> IdsOf(SelectedDimensions[n1])])

SelectedType == JoinStr(SelectedDimensions, "-")

\* a record left in a store by an earlier selection, under the key of ones
StaleRecord ==
  CombinedRecord(Resource("success", << SeriesData(<<9>>) >>),
                 Resource("success", << SeriesData(<<9>>) >>))

StaleRecords(arity) == [k \in {[i \in 1..arity |-> 1]} |-> StaleRecord]

\* which[i] = 0: no record under the i-th selected key; otherwise its kind
FetchedRecords(keys, which) ==
  [k \in {keys[i] : i \in {j \in DOMAIN which : which[j] # 0}} |->
     LET i == CHOOSE j \in DOMAIN which : keys[j] = k
     IN RecordKinds(i)[which[i]]]

\* the store of the selected type holds the fetched records, the others hold
\* a stale one
JoinState(type, fetched) ==
  [ref |-> 5,
   locationClientIsps |->
     Store(6, IF type = "location-clientIsp" THEN fetched ELSE StaleRecords(2)),
   locationTransitIsps |->
     Store(7, IF type = "location-transitIsp" THEN fetched ELSE StaleRecords(2)),
   clientIspTransitIsps |->
     Store(8, IF type = "clientIsp-transitIsp" THEN fetched ELSE StaleRecords(2)),
   locationClientIspTransitIsps |->
     Store(9, IF type = "location-clientIsp-transitIsp" THEN fetched ELSE StaleRecords(3))]

\* the states in which up to MaxRecords of the selected combinations have a
\* record
JoinStates ==
  UNION {
    {JoinState(SelectedType, FetchedRecords(keys, which)) :
       which \in [1..(IF Len(keys) < MaxRecords THEN Len(keys) ELSE MaxRecords) -> 0..4]}
    : keys \in {SelectedKeys}}

InitJoin ==
  /\ props \in {Props(t, Arr(2, [i \in 1..n0 |-> i]), Arr(3, [i \in 1..n1 |-> i]),
                      Arr(4, [i \in 1..n2 |-> i]), d) :
                  t \in Dimensions, n0 \in 0..MaxIds, n1 \in 0..MaxIds, n2 \in 0..MaxIds,
                  d \in BreakdownByValues}
  /\ state \in JoinStates
  /\ memo = EmptyMemo
  /\ outerMemo = FALSE
  /\ heap = FirstFree
  /\ ret = NoRet
  /\ op = "init"
  /\ fuel = 1
  /\ dashboard = Constructed
  /\ requests = <<>>

NextJoin ==
  \/ CallCombineData
  \/ CallGetCombinedItems
  \/ CallGetCombinedTimeSeries
  \/ CallGetCombinedTimeSeriesExtents
  \/ CallGetCombinedHourly
  \/ CallGetCombinedHourlyExtents

SpecJoin == InitJoin /\ [][NextJoin]_vars

\* the store a combined type names, as C6 speaks of it
StoreOf(type) ==
  CASE type = "location-clientIsp" -> state.locationClientIsps
    [] type = "location-transitIsp" -> state.locationTransitIsps
    [] type = "clientIsp-transitIsp" -> state.clientIspTransitIsps
    [] type = "location-clientIsp-transitIsp" -> state.locationClientIspTransitIsps

\* C6: getCombinedItems returns, in the order of combinedIds, one {id, data}
\* entry for exactly the combinations whose key has a record in the store that
\* combinedType selects, never more entries than combinedIds, and nothing for a
\* combinedType that names no store.
C6_JoinDropsAbsent ==
  op = "getCombinedItems" =>
    LET type == ret.typeAndIds.combinedType
        ids == ret.typeAndIds.combinedIds
        present == SelectSeq(ids, LAMBDA id : id.combined \in DOMAIN StoreOf(type).recs)
    IN /\ Len(ret.items.elems) <= Len(ids)
       /\ type \notin CombinedTypes => ret.items.elems = <<>>
       /\ type \in CombinedTypes =>
            ret.items.elems =
              [n1 \in 1..Len(present) |->
                 [id |-> present[n1], data |-> StoreOf(type).recs[present[n1].combined]]]

C6_Witness ==
  /\ op = "getCombinedItems"
  /\ Len(ret.typeAndIds.combinedIds) = 4
  /\ Len(ret.items.elems) = 1
  /\ ret.items.elems[1].id = ret.typeAndIds.combinedIds[2]

\* the leaf group of a joined item in the grouped time series
LeafOf(item) ==
  IF ret.typeAndIds.combinedType = "location-clientIsp-transitIsp"
    THEN ret.timeSeries.val[1][ToString(item.id.facetItemId)][ToString(item.id.breakdownByItemId)]
    ELSE ret.timeSeries.val[1][ToString(item.id.facetItemId)]

\* C7: a joined item whose time series has status error makes the combined
\* status of its group error, whatever the other members' statuses.
C7_ErrorPropagates ==
  op = "getCombinedTimeSeries" =>
    \A i \in 1..Len(ret.items.elems) :
      status(ret.items.elems[i].data.time.timeSeries) = "error" =>
        /\ ret.timeSeries.val # <<>>
        /\ LeafOf(ret.items.elems[i]).status = "error"

C7_Witness ==
  /\ op = "getCombinedTimeSeries"
  /\ Len(ret.items.elems) = 2
  /\ ret.typeAndIds.combinedType = "location-transitIsp"
  /\ status(ret.items.elems[1].data.time.timeSeries) = "fetching"
  /\ status(ret.items.elems[2].data.time.timeSeries) = "error"
  /\ ret.items.elems[1].id.facetItemId = ret.items.elems[2].id.facetItemId
  /\ LeafOf(ret.items.elems[1]).status = "error"

\* ------------------------------------------------------------- a session:
\* the page re-renders with new props, the fetch layer stores records, and
\* the selectors are called in between

\* the page re-renders: a new props object holding the same values
Rerender ==
  /\ fuel > 0
  /\ fuel' = fuel - 1
  /\ op' = "rerender"
  /\ props' = [props EXCEPT !.ref = heap]
  /\ heap' = heap + 1
  /\ UNCHANGED <<state, memo, outerMemo, ret>>
  /\ UNCHANGED <<dashboard, requests>>

\* the URL names another facet type
SetFacetType ==
  /\ fuel > 0
  /\ fuel' = fuel - 1
  /\ op' = "setFacetType"
  /\ \E t \in FacetTypeValues \ {props.facetType} :
       props' = [props EXCEPT !.ref = heap, !.facetType = t]
  /\ heap' = heap + 1
  /\ UNCHANGED <<state, memo, outerMemo, ret>>
  /\ UNCHANGED <<dashboard, requests>>

SessionIdLists == {<<>>, <<2, 1>>}

\* the URL names other ids for the facet or for a filter: a new array
SetIds ==
  /\ fuel > 0
  /\ fuel' = fuel - 1
  /\ op' = "setIds"
  /\ \E f \in {"facetItemIds", "filter1Ids", "filter2Ids"}, ids \in SessionIdLists :
       props' = [props EXCEPT !.ref = heap, ![f] = Arr(heap + 1, ids)]
  /\ heap' = heap + 2
  /\ UNCHANGED <<state, memo, outerMemo, ret>>
  /\ UNCHANGED <<dashboard, requests>>

SetBreakdownBy ==
  /\ fuel > 0
  /\ fuel' = fuel - 1
  /\ op' = "setBreakdownBy"
  /\ \E b \in BreakdownByValues \ {props.breakdownBy} :
       props' = [props EXCEPT !.ref = heap, !.breakdownBy = b]
  /\ heap' = heap + 1
  /\ UNCHANGED <<state, memo, outerMemo, ret>>
  /\ UNCHANGED <<dashboard, requests>>

StoreField ==
  [f \in {"locationClientIsps", "locationTransitIsps", "clientIspTransitIsps",
          "locationClientIspTransitIsps"} |->
     IF f = "locationClientIspTransitIsps" THEN 3 ELSE 2]

\* a fetch of the record under the key of ones fails: the reducer builds a
\* new store and a new state
ReceiveRecord ==
  /\ fuel > 0
  /\ fuel' = fuel - 1
  /\ op' = "receiveRecord"
  /\ \E f \in DOMAIN StoreField :
       state' = [state EXCEPT
                   !.ref = heap,
                   ![f] = Store(heap + 1,
                            [k \in DOMAIN state[f].recs \cup {[i \in 1..StoreField[f] |-> 1]} |->
                               IF k = [i \in 1..StoreField[f] |-> 1]
                                 THEN RecordKinds(2)[2] ELSE state[f].recs[k]])]
  /\ heap' = heap + 2
  /\ UNCHANGED <<props, memo, outerMemo, ret>>
  /\ UNCHANGED <<dashboard, requests>>

\* every combination of ids 1 and 2 has been fetched
SessionRecords(arity) ==
  [k \in [1..arity -> Ids] |-> RecordKinds(k[arity])[1]]

Init ==
  /\ props = Props("location", Arr(2, <<1, 2>>), Arr(3, <<1, 2>>), Undefined, "undefined")
  /\ state = [ref |-> 5,
              locationClientIsps |-> Store(6, SessionRecords(2)),
              locationTransitIsps |-> Store(7, SessionRecords(2)),
              clientIspTransitIsps |-> Store(8, SessionRecords(2)),
              locationClientIspTransitIsps |-> Store(9, SessionRecords(3))]
  /\ memo = EmptyMemo
  /\ outerMemo \in BOOLEAN
  /\ heap = FirstFree
  /\ ret = NoRet
  /\ op = "init"
  /\ fuel = MaxCalls
  /\ dashboard = Constructed
  /\ requests = <<>>

Next ==
  \/ CallSelector
  \/ Rerender
  \/ SetFacetType
  \/ SetIds
  \/ SetBreakdownBy
  \/ ReceiveRecord

Spec == Init /\ [][Next]_vars

\* the values a selector's input selectors read from the props and the state,
\* getFilterTypes' array apart: it is derived from getFacetType
TypeAndIdsInputs ==
  <<getFacetType(state, props).value, getFacetItemIds(state, props).ref,
    getFilter1Ids(state, props).ref, getFilter2Ids(state, props).ref,
    getBreakdownBy(state, props)>>

\* the inputs are those of the previous run of getCombinedTypeAndIds
TypeAndIdsInputsUnchanged ==
  /\ memo.getCombinedTypeAndIds.filled
  /\ LET a == memo.getCombinedTypeAndIds.args
     IN <<a[1], a[2], a[4], a[5], a[6]>> = TypeAndIdsInputs

\* C10 as stated: getCombinedTypeAndIds runs its result function only when a
\* declared input changed since its previous call; called again on unchanged
\* inputs it does not recompute and returns the cached object.
C10_RecomputesOnlyOnChange ==
  [][ TypeAndIdsInputsUnchanged =>
        /\ memo'.getCombinedTypeAndIds.recomputations =
             memo.getCombinedTypeAndIds.recomputations
        /\ memo'.getCombinedTypeAndIds.result.ref = memo.getCombinedTypeAndIds.result.ref
    ]_vars

\* ---------------------------------------------------------- idempotence

\* every stage of the pipeline computed from the values of state and props,
\* with no cache
PipelineTypeAndIds ==
  combinedTypeAndIds(getFacetType(state, props), getFacetItemIds(state, props),
                     getFilterTypes(state, props), getFilter1Ids(state, props),
                     getFilter2Ids(state, props), getBreakdownBy(state, props))
PipelineItems ==
  combinedItems(PipelineTypeAndIds, getLocationClientIsps(state), getLocationTransitIsps(state),
                getClientIspTransitIsps(state), getLocationClientIspTransitIsps(state))
PipelineTimeSeries ==
  combinedTimeSeries(PipelineTypeAndIds, getFacetItemIds(state, props), PipelineItems,
                     getViewMetric(state, props))
PipelineHourly ==
  combinedHourly(PipelineTypeAndIds, getFacetItemIds(state, props), PipelineItems,
                 getViewMetric(state, props))
PipelineTimeSeriesExtents ==
  combinedTimeSeriesExtents(PipelineTimeSeries, getViewMetric(state, props))
PipelineHourlyExtents ==
  combinedHourlyExtents(PipelineHourly, getViewMetric(state, props))

\* the stages a call of the selector op has run, the selector itself included
StagesOf ==
  [getCombinedTypeAndIds |-> {"typeAndIds"},
   getCombinedItems |-> {"typeAndIds", "items"},
   getCombinedTimeSeries |-> {"typeAndIds", "items", "timeSeries"},
   getCombinedTimeSeriesExtents |-> {"typeAndIds", "items", "timeSeries", "timeSeriesExtents"},
   getCombinedHourly |-> {"typeAndIds", "items", "hourly"},
   getCombinedHourlyExtents |-> {"typeAndIds", "items", "hourly", "hourlyExtents"}]

\* C12: whatever was called before, the output of every stage a selector call
\* runs is deep-equal to that stage computed from the values of the current
\* state and props alone, so that two runs on identical inputs agree.
C12_OutputsOfInputsAlone ==
  op \in DOMAIN StagesOf =>
    /\ "typeAndIds" \in StagesOf[op] =>
         /\ ret.typeAndIds.combinedType = PipelineTypeAndIds.combinedType
         /\ ret.typeAndIds.combinedIds = PipelineTypeAndIds.combinedIds
    /\ "items" \in StagesOf[op] => ret.items.elems = PipelineItems
    /\ "timeSeries" \in StagesOf[op] => ret.timeSeries.val = PipelineTimeSeries
    /\ "hourly" \in StagesOf[op] => ret.hourly.val = PipelineHourly
    /\ "timeSeriesExtents" \in StagesOf[op] =>
         ret.timeSeriesExtents.val = PipelineTimeSeriesExtents
    /\ "hourlyExtents" \in StagesOf[op] => ret.hourlyExtents.val = PipelineHourlyExtents

\* the extents are asked for and computed a second time, after other steps
\* of the session
C12_Witness ==
  /\ op = "getCombinedTimeSeriesExtents"
  /\ memo.getCombinedTimeSeriesExtents.recomputations = 2
  /\ ret.typeAndIds.combinedType = "location-clientIsp"
  /\ Len(ret.items.elems) = 4
  /\ ret.timeSeriesExtents.val = PipelineTimeSeriesExtents
  /\ "count" \in DOMAIN ret.timeSeriesExtents.val

\* ------------------------------------------------------------ top filters

\* the slice(0, 20) of topFilter
TopLimit == 20

getTop(st) == st.top

topKeyFromTypes(facetType, filterType) ==
  (IF filterType.value = "location" THEN "locations"
   ELSE IF filterType.value = "clientIsp" THEN "clientIsps"
   ELSE IF filterType.value = "transitIsp" THEN "transitIsps"
   ELSE "undefined")
  \o
  (IF facetType.value = "location" THEN "ForLocations"
   ELSE IF facetType.value = "clientIsp" THEN "ForClientIsps"
   ELSE IF facetType.value = "transitIsp" THEN "ForTransitIsps"
   ELSE "undefined")

\* variant: the list cut to 20 before the selected ids are removed
topFilterSliceFirst(topState, facetType, filterType, filterIds) ==
  LET topKey == topKeyFromTypes(facetType, filterType)
      idKey == filterType.idKey
      selected == IF filterIds.def THEN filterIds.elems ELSE <<>>
      topItems == IF topState[topKey].data # <<>> THEN topState[topKey].data[1] ELSE <<>>
      statusStr == status(topState[topKey])
      cut == SubSeq(topItems, 1, IF Len(topItems) < TopLimit THEN Len(topItems) ELSE TopLimit)
      kept == SelectSeq(cut, LAMBDA d : \A n1 \in 1..Len(selected) : selected[n1] # d[idKey])
  IN [data |-> kept, status |-> statusStr]

\* topFilter; filterIds defaults to [] when undefined
topFilter(topState, facetType, filterType, filterIds) ==
  LET topKey == topKeyFromTypes(facetType, filterType)
      idKey == filterType.idKey
      selected == IF filterIds.def THEN filterIds.elems ELSE <<>>
      topItems == IF topState[topKey].data # <<>> THEN topState[topKey].data[1] ELSE <<>>
      statusStr == status(topState[topKey])
      kept == SelectSeq(topItems, LAMBDA d : \A n1 \in 1..Len(selected) : selected[n1] # d[idKey])
  IN [data |-> SubSeq(kept, 1, IF Len(kept) < TopLimit THEN Len(kept) ELSE TopLimit),
      status |-> statusStr]

getTopFilter1(ms, st, p) ==
  IF outerHit(ms, "getTopFilter1", st, p)
    THEN [ms |-> ms, val |-> ms.memo.getTopFilter1.result]
    ELSE TheOne({
           memoized(ft.ms, "getTopFilter1", st, p,
             <<getTop(st).ref, getFacetType(st, p).value, ft.val.ref, getFilter1Ids(st, p).ref>>,
             [ref |-> ft.ms.heap] @@
               topFilter(getTop(st).lists, getFacetType(st, p), ft.val.elems[1],
                         getFilter1Ids(st, p)),
             topFilterWrites)
           : ft \in {FreshFilterTypes(ms, st, p)}})

getTopFilter2(ms, st, p) ==
  IF outerHit(ms, "getTopFilter2", st, p)
    THEN [ms |-> ms, val |-> ms.memo.getTopFilter2.result]
    ELSE TheOne({
           memoized(ft.ms, "getTopFilter2", st, p,
             <<getTop(st).ref, getFacetType(st, p).value, ft.val.ref, getFilter2Ids(st, p).ref>>,
             [ref |-> ft.ms.heap] @@
               topFilter(getTop(st).lists, getFacetType(st, p), ft.val.elems[2],
                         getFilter2Ids(st, p)),
             topFilterWrites)
           : ft \in {FreshFilterTypes(ms, st, p)}})

CallGetTopFilter1 ==
  /\ fuel > 0
  /\ fuel' = fuel - 1
  /\ op' = "getTopFilter1"
  /\ \E t \in {getTopFilter1(Machine, state, props)} :
        /\ heap' = t.ms.heap
        /\ props' = propsAfter(props, t.ms.writes)
        /\ state' = stateAfter(state, t.ms.writes)
        /\ memo' = memoAfter(t.ms.memo, t.ms.writes)
        /\ ret' = [ret EXCEPT !.top = t.val]
  /\ UNCHANGED outerMemo
  /\ UNCHANGED <<dashboard, requests>>

CallGetTopFilter2 ==
  /\ fuel > 0
  /\ fuel' = fuel - 1
  /\ op' = "getTopFilter2"
  /\ \E t \in {getTopFilter2(Machine, state, props)} :
        /\ heap' = t.ms.heap
        /\ props' = propsAfter(props, t.ms.writes)
        /\ state' = stateAfter(state, t.ms.writes)
        /\ memo' = memoAfter(t.ms.memo, t.ms.writes)
        /\ ret' = [ret EXCEPT !.top = t.val]
  /\ UNCHANGED outerMemo
  /\ UNCHANGED <<dashboard, requests>>

\* ------------------------------------------- the top filters on ranked lists
\* ------------------------------------------- longer than the limit

\* the longest ranked list of the top store
MaxTop == 24

TopKeys ==
  {topKeyFromTypes(facetTypes[n1], facetTypes[n2]) : n1 \in 1..Len(facetTypes), n2 \in 1..Len(facetTypes)}

\* a ranked entity of the top store: its id under every id key
TopEntity(id) == [k \in {facetTypes[n1].idKey : n1 \in 1..Len(facetTypes)} |-> id]

\* the ranked lists of n entities: ids ascending, or descending
RankedLists(n) ==
  { [n1 \in 1..n |-> TopEntity(n1)], [n1 \in 1..n |-> TopEntity(n + 1 - n1)] }

\* the top store: every (facet type, filter type) list fetched with the same
\* ranking, or still being fetched without data
TopStates ==
  { [ref |-> 6, lists |-> [k \in TopKeys |-> Resource("success", <<l>>)]] :
      l \in UNION {RankedLists(n) : n \in 0..MaxTop} }
  \cup { [ref |-> 6, lists |-> [k \in TopKeys |-> Resource("fetching", <<>>)]] }

\* the selected filter ids: none, or up to three of the first two and the last
SelectedIdArrays(r) == {Undefined} \cup {Arr(r, s) : s \in SeqsUpTo({1, 2, MaxTop}, 3)}

InitTop ==
  /\ props \in {Props(t, Arr(2, <<1>>), a, [a EXCEPT !.ref = IF a.def THEN 4 ELSE 0], "undefined") :
                  t \in Dimensions, a \in SelectedIdArrays(3)}
  /\ state \in {[ref |-> 5, top |-> t] : t \in TopStates}
  /\ memo = EmptyMemo
  /\ outerMemo = FALSE
  /\ heap = FirstFree
  /\ ret = NoRet
  /\ op = "init"
  /\ fuel = 1
  /\ dashboard = Constructed
  /\ requests = <<>>

NextTop == CallGetTopFilter1 \/ CallGetTopFilter2

SpecTop == InitTop /\ [][NextTop]_vars

\* the call's filter type, selected ids and ranked candidates
TopFilterType == getFilterTypes(state, props)[IF op = "getTopFilter1" THEN 1 ELSE 2]
TopSelected ==
  LET ids == IF op = "getTopFilter1" THEN props.filter1Ids ELSE props.filter2Ids
  IN {ids.elems[n1] : n1 \in 1..Len(ids.elems)}
TopCandidates ==
  LET list == state.top.lists[topKeyFromTypes(getFacetType(state, props), TopFilterType)]
  IN IF list.data = <<>> THEN <<>> ELSE list.data[1]

\* C11: topFilter's data are the first 20, in ranked order, of the candidates
\* whose id is not selected: never more than 20 entries, never a selected id.
C11_TopTwentyUnselected ==
  op \in {"getTopFilter1", "getTopFilter2"} =>
    LET unselected == SelectSeq(TopCandidates, LAMBDA d : d[TopFilterType.idKey] \notin TopSelected)
    IN /\ Len(ret.top.data) <= 20
       /\ \A n1 \in 1..Len(ret.top.data) : ret.top.data[n1][TopFilterType.idKey] \notin TopSelected
       /\ Len(ret.top.data) = (IF Len(unselected) < 20 THEN Len(unselected) ELSE 20)
       /\ \A n1 \in 1..Len(ret.top.data) : ret.top.data[n1] = unselected[n1]

\* 24 candidates, three of them selected: the 21 left are cut to 20
C11_Witness ==
  /\ op = "getTopFilter2"
  /\ Len(TopCandidates) = 24
  /\ TopSelected = {1, 2, 24}
  /\ TopCandidates[1][TopFilterType.idKey] = 1
  /\ Len(ret.top.data) = 20
  /\ ret.top.data[1][TopFilterType.idKey] = 3
  /\ ret.top.data[20][TopFilterType.idKey] = 22

\* ------------------------------------------- the frame of the pipeline calls

\* the ranked lists of the top store hold FrameTop entities each
FrameTop == 3

InitFrame ==
  /\ props \in {Props(t, Arr(2, <<2, 1>>), b, c, d) :
                  t \in Dimensions, b \in {Undefined, Arr(3, <<2, 1>>), Arr(3, <<1>>)},
                  c \in {Undefined, Arr(4, <<1, 2>>)}, d \in BreakdownByValues}
  /\ state = [ref |-> 5,
              locationClientIsps |-> Store(6, SessionRecords(2)),
              locationTransitIsps |-> Store(7, SessionRecords(2)),
              clientIspTransitIsps |-> Store(8, SessionRecords(2)),
              locationClientIspTransitIsps |-> Store(9, SessionRecords(3)),
              top |-> [ref |-> FirstFree,
                       lists |-> [k \in TopKeys |->
                                    Resource("success",
                                      <<[n1 \in 1..FrameTop |-> TopEntity(n1)]>>)]]]
  /\ memo = EmptyMemo
  /\ outerMemo \in BOOLEAN
  /\ heap = FirstFree + 1
  /\ ret = NoRet
  /\ op = "init"
  /\ fuel = 2
  /\ dashboard = Constructed
  /\ requests = <<>>

NextFrame ==
  \/ CallGetCombinedTypeAndIds
  \/ CallGetCombinedItems
  \/ CallGetCombinedTimeSeries
  \/ CallGetCombinedHourly
  \/ CallGetTopFilter1
  \/ CallGetTopFilter2

SpecFrame == InitFrame /\ [][NextFrame]_vars

\* C13: a call of getCombinedTypeAndIds, getCombinedItems,
\* getCombinedTimeSeries, getCombinedHourly or topFilter leaves the facet and
\* filter id lists, the combined-record stores, the top store and the joined
\* item list it was handed as they were: same elements, same order. The
\* joined item list of a grouping call is the join of the props and the state
\* the call started with.
C13_InputsUnchanged ==
  [][/\ props'.facetItemIds = props.facetItemIds
     /\ props'.filter1Ids = props.filter1Ids
     /\ props'.filter2Ids = props.filter2Ids
     /\ state' = state
     /\ memo'.getCombinedItems.recomputations = memo.getCombinedItems.recomputations
          => memo'.getCombinedItems.result = memo.getCombinedItems.result
     /\ op' \in {"getCombinedTimeSeries", "getCombinedHourly"}
          => memo'.getCombinedItems.result.elems = PipelineItems]_vars

\* the time series were grouped from the joined items a call before had left,
\* for two unsorted id lists and the ranked lists of the top store in place
C13_Witness ==
  /\ op = "getCombinedTimeSeries"
  /\ fuel = 0
  /\ memo.getCombinedItems.recomputations = 1
  /\ memo.getCombinedTimeSeries.recomputations = 1
  /\ memo.getCombinedTypeAndIds.recomputations >= 1
  /\ Len(ret.timeSeries.val) = 1
  /\ Len(ret.items.elems) = 4
  /\ props.facetItemIds.elems = <<2, 1>>
  /\ props.filter1Ids.elems = <<2, 1>>
  /\ Len(state.top.lists[topKeyFromTypes(facetTypes[1], facetTypes[2])].data[1]) = FrameTop

\* ---------------------------------------------------------- grouped results

\* the items of a list whose id has the value v in a field, in list order
ItemsWith(items, field, v) == SelectSeq(items, LAMBDA item : ToString(item.id[field]) = v)

\* C14: combineData returns undefined, not an empty mapping, when combinedItems
\* is undefined or empty; otherwise a mapping facetItemId -> combined result
\* for a 2-dimension type, and facetItemId -> (breakdownByItemId -> combined
\* result) for location-clientIsp-transitIsp.
C14_UndefinedOrNested ==
  op = "combineData" =>
    LET a == ret.combineData
        items == a.items.elems
        viewMetric == getViewMetric(state, props)
        facets == {ToString(items[n1].id.facetItemId) : n1 \in 1..Len(items)}
    IN /\ (~a.items.def \/ Len(items) = 0) => Len(a.val) = 0
       /\ (a.items.def /\ Len(items) # 0) =>
            /\ Len(a.val) = 1
            /\ DOMAIN a.val[1] = facets
            /\ a.combinedType # "location-clientIsp-transitIsp" =>
                 \A f \in facets :
                   a.val[1][f] = callCombine(a.combine, ItemsWith(items, "facetItemId", f),
                                             viewMetric)
            /\ a.combinedType = "location-clientIsp-transitIsp" =>
                 \A f \in facets :
                   LET of == ItemsWith(items, "facetItemId", f)
                   IN /\ DOMAIN a.val[1][f] =
                           {ToString(of[n1].id.breakdownByItemId) : n1 \in 1..Len(of)}
                      /\ \A b \in DOMAIN a.val[1][f] :
                           a.val[1][f][b] =
                             callCombine(a.combine, ItemsWith(of, "breakdownByItemId", b),
                                         viewMetric)

\* combineData was handed undefined where the props select three dimensions
C14_Witness ==
  /\ op = "combineData"
  /\ ~ret.combineData.items.def
  /\ ret.combineData.combinedType = "location-clientIsp-transitIsp"
  /\ Len(ret.combineData.val) = 0

\* the joined items that share an item's leaf group: those of its facetItemId,
\* and of its breakdownByItemId too when three dimensions are combined
GroupOf(item) ==
  SelectSeq(ret.items.elems,
            LAMBDA other :
              /\ other.id.facetItemId = item.id.facetItemId
              /\ ret.typeAndIds.combinedType = "location-clientIsp-transitIsp"
                   => other.id.breakdownByItemId = item.id.breakdownByItemId)

\* C15: for every group, combineTimeSeries' statuses hold exactly one status
\* for each joined item of the group, in item order, and its data exactly the
\* data arrays of the items whose time-series data is present, in item order:
\* an item whose time series has not loaded adds its status and no data array.
C15_StatusesAndPresentData ==
  op = "getCombinedTimeSeries" =>
    \A i \in 1..Len(ret.items.elems) :
      LET members == GroupOf(ret.items.elems[i])
          present == SelectSeq(members, LAMBDA m : m.data.time.timeSeries.data # <<>>)
          group == LeafOf(ret.items.elems[i])
      IN /\ group.statuses =
              [n1 \in 1..Len(members) |-> members[n1].data.time.timeSeries.status]
         /\ group.data =
              [n1 \in 1..Len(present) |-> present[n1].data.time.timeSeries.data[1]]

\* a group of two items: the first has data, the second failed and has none
C15_Witness ==
  /\ op = "getCombinedTimeSeries"
  /\ Len(ret.items.elems) = 2
  /\ Len(GroupOf(ret.items.elems[1])) = 2
  /\ ret.items.elems[2].data.time.timeSeries = Resource("error", <<>>)
  /\ LeafOf(ret.items.elems[1]).statuses = <<"success", "error">>
  /\ Len(LeafOf(ret.items.elems[1]).data) = 1

\* the leaf group of a joined item in the grouped hourly results
HourlyLeafOf(item) ==
  IF ret.typeAndIds.combinedType = "location-clientIsp-transitIsp"
    THEN ret.hourly.val[1][ToString(item.id.facetItemId)][ToString(item.id.breakdownByItemId)]
    ELSE ret.hourly.val[1][ToString(item.id.facetItemId)]

\* C16: for every group, combineHourly returns a list with exactly one entry
\* for each joined item of the group, in item order; an entry's id is the
\* item's filterItemId, its data and status those of the item's hourly
\* resource. The hourly results of a group are never merged into one object.
C16_HourlyPerItem ==
  op = "getCombinedHourly" =>
    \A i \in 1..Len(ret.items.elems) :
      LET members == GroupOf(ret.items.elems[i])
          group == HourlyLeafOf(ret.items.elems[i])
      IN /\ isArray(group)
         /\ Len(group.elems) = Len(members)
         /\ \A n1 \in 1..Len(members) :
              /\ group.elems[n1].id = members[n1].id.filterItemId
              /\ group.elems[n1].data = members[n1].data.time.hourly.data
              /\ group.elems[n1].status = members[n1].data.time.hourly.status

\* a group of two items of one facet item and two filter items: two entries,
\* the first with data, the second still fetching
C16_Witness ==
  /\ op = "getCombinedHourly"
  /\ Len(ret.items.elems) = 2
  /\ Len(HourlyLeafOf(ret.items.elems[1]).elems) = 2
  /\ HourlyLeafOf(ret.items.elems[1]).elems[1].id = 1
  /\ HourlyLeafOf(ret.items.elems[1]).elems[2].id = 2
  /\ ret.items.elems[2].id.facetItemId = 1
  /\ HourlyLeafOf(ret.items.elems[1]).elems[1].status = "success"
  /\ HourlyLeafOf(ret.items.elems[1]).elems[2].status = "fetching"
  /\ Len(HourlyLeafOf(ret.items.elems[1]).elems[2].data) = 0

\* ------------------------------------------------------------ shared extents

\* C17 as stated: getCombinedTimeSeriesExtents returns {} for undefined grouped
\* input; for one or two levels of groups its result has the metric key only
\* if some group holds a data array, and the count key only if counts are
\* present; a key is left out otherwise.
C17_KeysOnlyWhenPresent ==
  op = "getCombinedTimeSeriesExtents" =>
    LET extents == ret.timeSeriesExtents.val
        dataKey == getViewMetric(state, props).dataKey
        items == ret.items.elems
    IN /\ Len(ret.timeSeries.val) = 0 => extents = EmptyObject
       /\ dataKey \in DOMAIN extents
            <=> \E i \in 1..Len(items) : Len(LeafOf(items[i]).data) # 0
       /\ "count" \in DOMAIN extents
            <=> \E i \in 1..Len(items) : Len(LeafOf(items[i]).counts) # 0

\* ------------------------------------------------- the roles of three ids

\* the three ids of every entry are taken from the dimensions facet,
\* breakdown and filter of its combination
RolesAre(facet, breakdown, filter) ==
  \A i \in 1..Len(ret.typeAndIds.combinedIds) :
    LET id == ret.typeAndIds.combinedIds[i]
    IN /\ id.facetItemId = id.combined[Position(facet)]
       /\ id.breakdownByItemId = id.combined[Position(breakdown)]
       /\ id.filterItemId = id.combined[Position(filter)]

\* every dimension has the two ids, so that the combinations tell the
\* dimensions apart
AllCombinations == \A d \in Dimensions : IdsOf(d) = <<1, 2>>

\* C18 as stated: in the 3-dimension case, for every facet type and every
\* breakdownBy (filter1, filter2 or neither), facetItemId, breakdownByItemId and
\* filterItemId are the ids of three different dimensions, and
\* breakdownByItemId is never the facet dimension's id.
C18_ThreeDifferentDimensions ==
  (Expanded /\ Cardinality(ActiveDimensions) = 3 /\ AllCombinations) =>
    \E breakdown \in Dimensions \ {FacetDimension} :
      \E filter \in Dimensions \ {FacetDimension, breakdown} :
        RolesAre(FacetDimension, breakdown, filter)

\* C18, amended: with breakdownBy filter1 or filter2 the three ids are those of
\* three different dimensions, for every facet type. With neither,
\* breakdownByItemId is the transitIsp id and filterItemId the id of the first
\* dimension, in the order location, clientIsp, that is not the facet: three
\* different dimensions for the facets location and clientIsp; for the facet
\* transitIsp breakdownByItemId is the facet's id and no field holds the
\* clientIsp id.
C18_RolesByCascade ==
  (Expanded /\ Cardinality(ActiveDimensions) = 3) =>
    IF props.breakdownBy = "filter1"
      THEN RolesAre(FacetDimension, Filter1Dimension, Filter2Dimension)
    ELSE IF props.breakdownBy = "filter2"
      THEN RolesAre(FacetDimension, Filter2Dimension, Filter1Dimension)
    ELSE RolesAre(FacetDimension, "transitIsp",
                  IF FacetDimension = "location" THEN "clientIsp" ELSE "location")

\* the facet is transitIsp and no filter is the breakdown: the entry of
\* location 2, client ISP 2 and transit ISP 1 has the transit ISP's id as its
\* facet id and as its breakdown id
C18_Witness ==
  /\ Expanded
  /\ FacetDimension = "transitIsp"
  /\ props.breakdownBy \notin {"filter1", "filter2"}
  /\ AllCombinations
  /\ \E i \in 1..Len(ret.typeAndIds.combinedIds) :
       /\ ret.typeAndIds.combinedIds[i].combined = <<2, 2, 1>>
       /\ ret.typeAndIds.combinedIds[i].facetItemId = 1
       /\ ret.typeAndIds.combinedIds[i].breakdownByItemId = 1
       /\ ret.typeAndIds.combinedIds[i].filterItemId = 2

\* ------------------------------------------------- the groups as a partition

\* the sum of the numbers a function gives for the keys of a set
RECURSIVE SumOver(_, _)
SumOver(f, S) ==
  IF S = {} THEN 0
  ELSE LET k == CHOOSE x \in S : TRUE IN f[k] + SumOver(f, S \ {k})

\* the lengths of the statuses of all leaf groups of the grouped time series,
\* summed
StatusesInGroups ==
  IF Len(ret.timeSeries.val) = 0 THEN 0
  ELSE LET byFacetItem == ret.timeSeries.val[1]
       IN IF ret.typeAndIds.combinedType = "location-clientIsp-transitIsp"
            THEN SumOver([f \in DOMAIN byFacetItem |->
                            SumOver([b \in DOMAIN byFacetItem[f] |->
                                       Len(byFacetItem[f][b].statuses)],
                                    DOMAIN byFacetItem[f])],
                         DOMAIN byFacetItem)
            ELSE SumOver([f \in DOMAIN byFacetItem |-> Len(byFacetItem[f].statuses)],
                         DOMAIN byFacetItem)

\* C19: combineData partitions the joined items: every joined item is handed
\* to the combiner in exactly one leaf group, that of its facetItemId (and of
\* its breakdownByItemId when three dimensions are combined), so that the
\* lengths of the statuses of all leaf groups of getCombinedTimeSeries sum to
\* the number of joined items.
C19_GroupsPartitionItems ==
  op = "getCombinedTimeSeries" =>
    /\ StatusesInGroups = Len(ret.items.elems)
    /\ \A i \in 1..Len(ret.items.elems) :
         LET item == ret.items.elems[i]
             byFacetItem == ret.timeSeries.val[1]
         IN /\ ToString(item.id.facetItemId) \in DOMAIN byFacetItem
            /\ ret.typeAndIds.combinedType = "location-clientIsp-transitIsp" =>
                 ToString(item.id.breakdownByItemId)
                   \in DOMAIN byFacetItem[ToString(item.id.facetItemId)]
            /\ Len(LeafOf(item).statuses) = Len(GroupOf(item))

\* three dimensions: two joined items of one facet item in two breakdown
\* groups of one status each
C19_Witness ==
  /\ op = "getCombinedTimeSeries"
  /\ ret.typeAndIds.combinedType = "location-clientIsp-transitIsp"
  /\ Len(ret.items.elems) = 2
  /\ ret.items.elems[1].id.facetItemId = ret.items.elems[2].id.facetItemId
  /\ ret.items.elems[1].id.breakdownByItemId # ret.items.elems[2].id.breakdownByItemId
  /\ Len(LeafOf(ret.items.elems[1]).statuses) = 1
  /\ Len(LeafOf(ret.items.elems[2]).statuses) = 1
  /\ StatusesInGroups = 2

\* ------------------------------------------------------ the dashboard page
\* DashboardPage keeps the selected region and year and the rows fetched for
\* them in this.state. A handler runs to its end before anything else does; a
\* fetch is answered, and its body parsed, at any later time. The statistics
\* and chart series processDataFromFetch derives from the rows are functions
\* of data and are not carried.

\* the changes of region or year by the user in one run
MaxChanges == 2

\* the regions of the region select: key and label
regions ==
  <<[key |-> "NA/US/ND", label |-> "North Dakota"],
    [key |-> "NA/US/NY", label |-> "New York"]>>

\* the options of the year select
Years == {2020, 2019}

\* the status codes a fetch is answered with
StatusCodes == {200, 404}

\* the rows histogram_daily_stats.json holds for a region and a year
ServedRows(regionId, year) == <<[regionId |-> regionId, year |-> year]>>

\* fetchData: reads regionId and year from this.state, sets isFetching and
\* sends the request
fetchData(thisState, sent) ==
  [state |-> [thisState EXCEPT !.isFetching = TRUE],
   requests |-> Append(sent, [regionId |-> thisState.regionId, year |-> thisState.year,
                              phase |-> "sent"])]

\* setStateWithRegion: nothing for the region already selected
setStateWithRegion(thisState, sent, region) ==
  IF thisState.regionId = region.key
    THEN [state |-> thisState, requests |-> sent]
    ELSE fetchData([thisState EXCEPT !.regionId = region.key,
                                     !.regionLabel = region.label], sent)

\* processDataFromFetch
processDataFromFetch(thisState, fetched) ==
  [thisState EXCEPT !.data = fetched, !.isFetching = FALSE]

ComponentDidMount ==
  /\ op = "init"
  /\ op' = "componentDidMount"
  /\ \E f \in {fetchData(dashboard, requests)} :
       /\ dashboard' = f.state
       /\ requests' = f.requests
  /\ UNCHANGED <<props, state, memo, outerMemo, heap, ret, fuel>>

HandleRegionChange ==
  /\ op # "init"
  /\ fuel > 0
  /\ fuel' = fuel - 1
  /\ op' = "handleRegionChange"
  /\ \E n1 \in 1..Len(regions) :
       \E f \in {setStateWithRegion(dashboard, requests, regions[n1])} :
         /\ dashboard' = f.state
         /\ requests' = f.requests
  /\ UNCHANGED <<props, state, memo, outerMemo, heap, ret>>

HandleYearChange ==
  /\ op # "init"
  /\ fuel > 0
  /\ fuel' = fuel - 1
  /\ op' = "handleYearChange"
  /\ \E value \in Years :
       \E f \in {fetchData([dashboard EXCEPT !.year = value], requests)} :
         /\ dashboard' = f.state
         /\ requests' = f.requests
  /\ UNCHANGED <<props, state, memo, outerMemo, heap, ret>>

\* the then of fetch(url): a status other than 200 is logged and the response
\* dropped, otherwise the body is parsed
FetchResponds ==
  /\ \E n1 \in 1..Len(requests), code \in StatusCodes :
       /\ requests[n1].phase = "sent"
       /\ requests' = [requests EXCEPT ![n1].phase = IF code # 200 THEN "failed" ELSE "parsing"]
  /\ op' = "fetchResponds"
  /\ UNCHANGED <<props, state, memo, outerMemo, heap, ret, fuel, dashboard>>

\* the then of response.json(): the rows go to processDataFromFetch
JsonParsed ==
  /\ \E n1 \in 1..Len(requests) :
       /\ requests[n1].phase = "parsing"
       /\ requests' = [requests EXCEPT ![n1].phase = "done"]
       /\ dashboard' = processDataFromFetch(dashboard,
                         ServedRows(requests[n1].regionId, requests[n1].year))
  /\ op' = "processDataFromFetch"
  /\ UNCHANGED <<props, state, memo, outerMemo, heap, ret, fuel>>

InitDashboard ==
  /\ props = Props("location", Undefined, Undefined, Undefined, "undefined")
  /\ state = EmptyState
  /\ memo = EmptyMemo
  /\ outerMemo = FALSE
  /\ heap = FirstFree
  /\ ret = NoRet
  /\ op = "init"
  /\ fuel = MaxChanges
  /\ dashboard = Constructed
  /\ requests = <<>>

NextDashboard ==
  \/ ComponentDidMount
  \/ HandleRegionChange
  \/ HandleYearChange
  \/ FetchResponds
  \/ JsonParsed

SpecDashboard == InitDashboard /\ [][NextDashboard]_vars

\* C20 as stated: after the region or the year was changed, once every fetch
\* has completed, the data held are the response for the region and the year
\* now selected, whenever the last request was answered with its rows: the
\* response to an older request never replaces the data of a newer one.
C20_LatestResponseWins ==
  ( /\ Len(requests) >= 2
    /\ \A n1 \in 1..Len(requests) : requests[n1].phase \in {"done", "failed"}
    /\ requests[Len(requests)].phase = "done" )
    => dashboard.data = ServedRows(dashboard.regionId, dashboard.year)

\* the network answers every request sent and every body is parsed in the
\* end; the user is not bound to change anything
SpecDashboardLive ==
  /\ InitDashboard
  /\ [][NextDashboard]_vars
  /\ WF_vars(FetchResponds)
  /\ WF_vars(JsonParsed)

\* C21 as stated: every fetchData call that sets isFetching to true is, once
\* its response has arrived, eventually followed by isFetching being false,
\* also when the response's status is not 200. Runs in which the user has used
\* up the changes of a run are left aside, so that a run that refutes the
\* statement is one in which the page is at rest while the user could go on.
C21_FetchingEnds ==
  \A n1 \in 1..(MaxChanges + 1) :
    (Len(requests) >= n1 /\ requests[n1].phase # "sent")
      ~> (~dashboard.isFetching \/ fuel = 0)


====
